---- MODULE Spec2Model ----
(***************************************************************************)
(* Model of rustc_typeck::check (compiler/rustc_typeck/src/check/mod.rs):  *)
(*   - fixup_opaque_types, the fold that maps inference variables in the   *)
(*     substs of opaque types back to generic parameters;                  *)
(*   - typeck_with_fallback, the per-item pipeline: body check, obligation *)
(*     selection, two fallback passes, closure analysis, region check and  *)
(*     writeback.                                                          *)
(***************************************************************************)
EXTENDS Integers, Sequences, FiniteSets, TLC

VARIABLES
    \* ---- fixup_opaque_types -------------------------------------------
    fpc,          \* position: "input", "fixed", "refixed", "check_fn", "bug",
                  \* "idle"
    sig,          \* the normalized signature handed to fixup_opaque_types
    fixed,        \* fixup_opaque_types(sig)
    refixed,      \* fixup_opaque_types(fixed)
    check_fn_sig, \* the fn_sig argument of check_fn, None before the call
    \* ---- typeck_with_fallback -----------------------------------------
    pc,           \* the statement of typeck_with_fallback about to run
    item,         \* "fn" when fn_decl.is_some(), else "const"
    var_kind,     \* kind of each inference variable of the Variable Store
    store,        \* current resolution of each variable, or Unresolved
    region_violations,          \* region variables forced out of scope
    node_types,                 \* fcx.node_types: the in-progress table
    obligations,                \* pending obligations of the fulfillment cx
    deferred_call_resolutions,  \* fcx.deferred_call_resolutions
    deferred_sized_obligations, \* fcx.deferred_sized_obligations
    resolved_calls,             \* deferred calls resolved by closure_analyze
    fallback_has_occurred,      \* the local of that name
    unsolved,                   \* last value of fcx.unsolved_variables()
    errors,                     \* diagnostics reported, in order
    typeck_results,             \* result of resolve_type_vars_in_body
    published,                  \* the table returned to the query system
    \* history of the run
    trace,        \* the passes called so far, in order
    select_flags, \* the flag passed to each select_obligations_where_possible
    defaulted,    \* per variable: <<pass, type>> of its fallback default
    \* ---- the typeck and has_typeck_results queries ----------------------
    closure_parent,   \* per def: the def enclosing a closure, 0 for an item
    has_primary_body, \* per def: primary_body_of(..).is_some()
    is_local,         \* per def: def_id.as_local().is_some()
    typeck_cache,     \* per def: the memoized result of tcx.typeck, or None
    pipelines_run,    \* the defs for which the pipeline has been entered
    answer,           \* the last query and its result
    \* ---- typeck_item_bodies: items checked on parallel workers -----------
    worker_pc,     \* per worker: the statement of typeck_with_fallback it is at
    worker_body,   \* per worker: what checking the body of its item leaves
    inherited,     \* per Inherited built: store, queue, in-progress table
    par_published, \* per worker: the table returned for its item
    \* ---- UnsafetyState along a chain of nested blocks --------------------
    ps,            \* the states, outermost first: ps[1] is the function's
    blocks,        \* the rules of the blocks entered, outermost first
    upc,           \* "walk", "panic" (an unwrap() of None), "idle"
    \* ---- the branch of typeck_with_fallback for a constant or static ------
    cpc,           \* the statement of the branch about to run
    body_ty,       \* the item's annotation: None, <<"Infer">>, <<"Explicit", t>>
    fallback_ty,   \* what the closure `fallback` returns
    impl_trait_in_bindings,  \* tcx.features().impl_trait_in_bindings
    bindings,      \* number of bindings in the body
    body_refs,     \* the bindings the body's expressions refer to, in order
    value_ty,      \* the type check_expr finds for body.value
    expected_type, \* the local of that name
    revealed_ty,   \* the local of that name
    sized_tys,         \* the types require_type_is_sized was called with
    locals,        \* the LocalBinding table: locals[b] for each declared b
    checked,       \* number of references of body_refs checked
    lookups,       \* <<b, entry>> for each lookup of the expression checker
    cerrors,       \* diagnostics reported in the branch
    item_ty,       \* the type recorded by write_ty(id, ..), or None
    \* ---- EnclosingBreakables ----------------------------------------------
    bpc,           \* "walk", "bug" (bug! was called), "idle"
    stack,         \* EnclosingBreakables.stack
    by_id,         \* EnclosingBreakables.by_id: a function on the ids it holds
    stack_ids,     \* history: the construct each stack entry was pushed for
    saved,         \* history: stack and by_id at the entry of each open construct
    found,         \* what the last lookup returned
    \* ---- Coercion Engine --------------------------------------------------
    jpc,           \* "join", "idle"
    candidates,    \* the candidate types, in the order they are presented
    runs           \* runs[r]: the state of engine instance r

fixup_vars == <<fpc, sig, fixed, refixed, check_fn_sig>>

query_vars == <<closure_parent, has_primary_body, is_local, typeck_cache,
                pipelines_run, answer>>

par_vars == <<worker_pc, worker_body, inherited, par_published>>

unsafety_vars == <<ps, blocks, upc>>

const_vars == <<cpc, body_ty, fallback_ty, impl_trait_in_bindings, bindings,
                body_refs, value_ty, expected_type, revealed_ty, sized_tys, locals,
                checked, lookups, cerrors, item_ty>>

breakable_vars == <<bpc, stack, by_id, stack_ids, saved, found>>

coercion_vars == <<jpc, candidates, runs>>

fcx_vars == <<var_kind, store, region_violations, node_types, obligations,
              deferred_call_resolutions, deferred_sized_obligations,
              resolved_calls, unsolved, errors>>

pipeline_vars == <<pc, item, fcx_vars, fallback_has_occurred, typeck_results,
                   published, trace, select_flags, defaulted>>

\* The variables of the specifications other than FixupSpec and Spec.
other_vars == <<query_vars, par_vars, unsafety_vars, const_vars, breakable_vars,
                coercion_vars>>

vars == <<fixup_vars, pipeline_vars, other_vars>>

(***************************************************************************)
(* Types, regions, constants and generic arguments.                        *)
(*   Ty      <<"Int">>  <<"Param", i>>  <<"Infer">>  <<"Ref", r, ty>>      *)
(*           <<"Opaque", def_id, substs>>                                  *)
(*   Region  <<"ReVar">>  <<"ReStatic">>  <<"ReEarlyBound", i>>            *)
(*   Const   <<"CInfer">>  <<"CValue">>  <<"CParam", i>>                   *)
(*   GenericArg  <<"Type", ty>>  <<"Lifetime", r>>  <<"Const", c>>         *)
(***************************************************************************)

\* Nesting depth of the types drawn as signature outputs.
MaxDepth == 3

None == <<"None">>

\* The outcome of bug!(): the call does not return a value.
Bug == <<"Bug">>

\* The opaque types in scope and the kinds of their declared generic
\* parameters (tcx.generics_of(def_id)), positionally.
OpaqueDefs == {1, 2, 3}

generics_of(def_id) ==
    CASE def_id = 1 -> <<"Type">>
      [] def_id = 2 -> <<"Lifetime", "Type">>
      [] def_id = 3 -> <<"Const", "Type">>

LeafTys == {<<"Int">>, <<"Param", 0>>, <<"Infer">>}
InputRegions == {<<"ReVar">>, <<"ReStatic">>}
InputConsts == {<<"CInfer">>, <<"CValue">>}

ArgsOfKind(k, tys) ==
    CASE k = "Type" -> {<<"Type", t>> : t \in tys}
      [] k = "Lifetime" -> {<<"Lifetime", r>> : r \in InputRegions}
      [] k = "Const" -> {<<"Const", c>> : c \in InputConsts}

\* All substs for def_id whose i-th argument has the kind of the i-th
\* declared parameter and whose type arguments are drawn from tys.
SubstsFor(def_id, tys) ==
    LET g == generics_of(def_id) IN
    IF Len(g) = 1
    THEN {<<a>> : a \in ArgsOfKind(g[1], tys)}
    ELSE {<<a, b>> : a \in ArgsOfKind(g[1], tys), b \in ArgsOfKind(g[2], tys)}

RECURSIVE TySet(_)
TySet(d) ==
    IF d = 0 THEN LeafTys
    ELSE LET sub == TySet(d - 1) IN
         LeafTys
         \cup {<<"Ref", r, t>> : r \in InputRegions, t \in sub}
         \cup UNION {{<<"Opaque", def, s>> : s \in SubstsFor(def, sub)} : def \in OpaqueDefs}

(***************************************************************************)
(* TypeFlags: needs_infer() is HAS_TY_INFER | HAS_RE_INFER | HAS_CT_INFER, *)
(* computed over the whole type, nested arguments included.                *)
(***************************************************************************)
RECURSIVE needs_infer(_)
needs_infer(ty) ==
    CASE ty[1] = "Infer" -> TRUE
      [] ty[1] = "Ref" -> ty[2] = <<"ReVar">> \/ needs_infer(ty[3])
      [] ty[1] = "Opaque" ->
            \E i \in 1..Len(ty[3]) :
                LET a == ty[3][i] IN
                (CASE a[1] = "Type" -> needs_infer(a[2])
                   [] a[1] = "Lifetime" -> a[2] = <<"ReVar">>
                   [] a[1] = "Const" -> a[2] = <<"CInfer">>)
      [] OTHER -> FALSE

\* tcx.mk_param_from_def(param): the generic parameter itself, by the
\* declared kind of the parameter; index is the 0-based param.index.
mk_param_from_def(kind, index) ==
    CASE kind = "Type" -> <<"Type", <<"Param", index>>>>
      [] kind = "Lifetime" -> <<"Lifetime", <<"ReEarlyBound", index>>>>
      [] kind = "Const" -> <<"Const", <<"CParam", index>>>>

\* A fold result containing a failed sub-fold has failed: bug! unwinds.
AnyBug(s) == \E i \in 1..Len(s) : s[i] = Bug

RECURSIVE fold_ty(_)
\* old_param.fold_with(self) for one generic argument: types go through
\* fold_ty; FixupFolder overrides neither fold_region nor fold_const.
fold_arg(old_param) ==
    IF old_param[1] = "Type"
    THEN LET t == fold_ty(old_param[2]) IN
         IF t = Bug THEN Bug ELSE <<"Type", t>>
    ELSE old_param

\* Mutant of fixup_param: region variables are not mapped back to the
\* declared lifetime parameter.
fixup_param_keeps_revar(ty, kind, index) ==
    LET old_param == ty[3][index + 1] IN
    CASE old_param[1] = "Type" ->
            (IF old_param[2][1] = "Infer"
             THEN mk_param_from_def(kind, index)
             ELSE fold_arg(old_param))
      [] old_param[1] = "Const" ->
            (IF old_param[2] = <<"CInfer">>
             THEN Bug
             ELSE fold_arg(old_param))
      [] old_param[1] = "Lifetime" -> fold_arg(old_param)

\* Mutant of fixup_param: the old argument is read one position off
\* (substs[param.index + 1], wrapping at the end).
fixup_param_off_by_one(ty, kind, index) ==
    LET n == Len(ty[3])
        old_param == ty[3][IF index + 2 > n THEN 1 ELSE index + 2] IN
    CASE old_param[1] = "Type" ->
            (IF old_param[2][1] = "Infer"
             THEN mk_param_from_def(kind, index)
             ELSE fold_arg(old_param))
      [] old_param[1] = "Const" ->
            (IF old_param[2] = <<"CInfer">>
             THEN Bug
             ELSE fold_arg(old_param))
      [] old_param[1] = "Lifetime" ->
            (IF old_param[2] = <<"ReVar">>
             THEN mk_param_from_def(kind, index)
             ELSE fold_arg(old_param))

\* Mutant of fixup_param: an unresolved const inference variable is mapped
\* back to the declared const parameter instead of ending in bug!.
fixup_param_const_to_param(ty, kind, index) ==
    LET old_param == ty[3][index + 1] IN
    CASE old_param[1] = "Type" ->
            (IF old_param[2][1] = "Infer"
             THEN mk_param_from_def(kind, index)
             ELSE fold_arg(old_param))
      [] old_param[1] = "Const" ->
            (IF old_param[2] = <<"CInfer">>
             THEN mk_param_from_def(kind, index)
             ELSE fold_arg(old_param))
      [] old_param[1] = "Lifetime" ->
            (IF old_param[2] = <<"ReVar">>
             THEN mk_param_from_def(kind, index)
             ELSE fold_arg(old_param))

\* The closure passed to InternalSubsts::for_item, for the parameter at
\* 0-based index `index` of declared kind `kind`.
fixup_param(ty, kind, index) ==
    LET old_param == ty[3][index + 1] IN
    CASE old_param[1] = "Type" ->
            (IF old_param[2][1] = "Infer"
             THEN mk_param_from_def(kind, index)
             ELSE fold_arg(old_param))
      [] old_param[1] = "Const" ->
            (IF old_param[2] = <<"CInfer">>
             THEN Bug
             ELSE fold_arg(old_param))
      [] old_param[1] = "Lifetime" ->
            (IF old_param[2] = <<"ReVar">>
             THEN mk_param_from_def(kind, index)
             ELSE fold_arg(old_param))

\* Mutant of fold_ty: an inference variable is replaced wherever the folder
\* meets one, by the first generic parameter.
fold_ty_replaces_every_infer(ty) ==
    CASE ty[1] = "Opaque" ->
            (IF needs_infer(ty)
             THEN LET g == generics_of(ty[2])
                      new_substs == [i \in 1..Len(g) |-> fixup_param(ty, g[i], i - 1)]
                  IN  IF AnyBug(new_substs) THEN Bug
                      ELSE <<"Opaque", ty[2], new_substs>>
             ELSE ty)
      [] ty[1] = "Ref" ->
            (LET t == fold_ty(ty[3]) IN
             IF t = Bug THEN Bug ELSE <<"Ref", ty[2], t>>)
      [] ty[1] = "Infer" -> <<"Param", 0>>
      [] OTHER -> ty

fold_ty(ty) ==
    CASE ty[1] = "Opaque" ->
            (IF needs_infer(ty)
             THEN LET g == generics_of(ty[2])
                      new_substs == [i \in 1..Len(g) |-> fixup_param(ty, g[i], i - 1)]
                  IN  IF AnyBug(new_substs) THEN Bug
                      ELSE <<"Opaque", ty[2], new_substs>>
             ELSE ty)
      [] ty[1] = "Ref" ->
            (LET t == fold_ty(ty[3]) IN
             IF t = Bug THEN Bug ELSE <<"Ref", ty[2], t>>)
      [] OTHER -> ty

\* val.fold_with(&mut FixupFolder { tcx }) on a signature: every type of
\* inputs_and_output is folded.
fixup_opaque_types(val) ==
    LET folded == [i \in 1..Len(val) |-> fold_ty(val[i])] IN
    IF AnyBug(folded) THEN Bug ELSE folded

(***************************************************************************)
(* The state of an item whose pipeline has not been entered.               *)
(***************************************************************************)
NVars == 2
Vars == 1..NVars

Unresolved == "?"

FreshFnCtxt ==
    /\ var_kind = [v \in Vars |-> "general"]
    /\ store = [v \in Vars |-> Unresolved]
    /\ region_violations = {}
    /\ node_types = [v \in Vars |-> None]
    /\ obligations = <<>>
    /\ deferred_call_resolutions = <<>>
    /\ deferred_sized_obligations = <<>>
    /\ resolved_calls = 0
    /\ unsolved = <<>>
    /\ errors = <<>>
    /\ fallback_has_occurred = FALSE
    /\ typeck_results = None
    /\ published = None
    /\ trace = <<>>
    /\ select_flags = <<>>
    /\ defaulted = [v \in Vars |-> None]

PipelineIdle ==
    /\ pc = "idle"
    /\ item = "fn"
    /\ FreshFnCtxt

\* Number of definitions (items and closures) of the crate.
NDefs == 3
Defs == 1..NDefs

QueryIdle ==
    /\ closure_parent = [d \in Defs |-> 0]
    /\ has_primary_body = [d \in Defs |-> FALSE]
    /\ is_local = [d \in Defs |-> FALSE]
    /\ typeck_cache = [d \in Defs |-> None]
    /\ pipelines_run = {}
    /\ answer = None

\* Number of workers of par_body_owners; worker w checks item w.
NWorkers == 2
Workers == 1..NWorkers

\* Inherited::build: no variable, no obligation, an empty table.
FreshInherited ==
    [kind |-> [v \in Vars |-> "general"],
     store |-> [v \in Vars |-> Unresolved],
     obligations |-> <<>>,
     node_types |-> [v \in Vars |-> None],
     errors |-> <<>>,
     typeck_results |-> None]

ParIdle ==
    /\ worker_pc = [w \in Workers |-> "idle"]
    /\ worker_body = [w \in Workers |-> None]
    /\ inherited = [w \in Workers |-> FreshInherited]
    /\ par_published = [w \in Workers |-> None]

UnsafetyIdle ==
    /\ ps = <<>>
    /\ blocks = <<>>
    /\ upc = "idle"

ConstIdle ==
    /\ cpc = "idle"
    /\ body_ty = None
    /\ fallback_ty = None
    /\ impl_trait_in_bindings = FALSE
    /\ bindings = 0
    /\ body_refs = <<>>
    /\ value_ty = None
    /\ expected_type = None
    /\ revealed_ty = None
    /\ sized_tys = <<>>
    /\ locals = <<>>
    /\ checked = 0
    /\ lookups = <<>>
    /\ cerrors = <<>>
    /\ item_ty = None

BreakableIdle ==
    /\ bpc = "idle"
    /\ stack = <<>>
    /\ by_id = <<>>
    /\ stack_ids = <<>>
    /\ saved = <<>>
    /\ found = None

CoercionIdle ==
    /\ jpc = "idle"
    /\ candidates = <<>>
    /\ runs = <<>>

OthersIdle ==
    QueryIdle /\ ParIdle /\ UnsafetyIdle /\ ConstIdle /\ BreakableIdle /\ CoercionIdle

FixupIdle ==
    /\ fpc = "idle"
    /\ sig = None
    /\ fixed = None
    /\ refixed = None
    /\ check_fn_sig = None

(***************************************************************************)
(* Specification of fixup_opaque_types: a signature is drawn and fixed up;  *)
(* the result is handed to check_fn, or fixed up again.                    *)
(***************************************************************************)
Signatures ==
    {<<i, o>> : i \in {<<"Int">>, <<"Infer">>}, o \in TySet(MaxDepth)}

FixupInit ==
    /\ fpc = "input"
    /\ sig \in Signatures
    /\ fixed = None
    /\ refixed = None
    /\ check_fn_sig = None
    /\ PipelineIdle
    /\ OthersIdle

Fixup ==
    /\ fpc = "input"
    /\ fixed' = fixup_opaque_types(sig)
    /\ fpc' = IF fixed' = Bug THEN "bug" ELSE "fixed"
    /\ UNCHANGED <<sig, refixed, check_fn_sig, pipeline_vars, other_vars>>

Refixup ==
    /\ fpc = "fixed"
    /\ refixed' = fixup_opaque_types(fixed)
    /\ fpc' = IF refixed' = Bug THEN "bug" ELSE "refixed"
    /\ UNCHANGED <<sig, fixed, check_fn_sig, pipeline_vars, other_vars>>

\* Mutant of CheckFn: check_fn is handed the normalized signature as it was
\* before fixup_opaque_types.
CheckFnUnfixed ==
    /\ fpc = "fixed"
    /\ check_fn_sig' = sig
    /\ fpc' = "check_fn"
    /\ UNCHANGED <<sig, fixed, refixed, pipeline_vars, other_vars>>

\* check_fn(&inh, param_env, fn_sig, ...): fn_sig is the binding that
\* fixup_opaque_types returned; the call is reached only if that returned.
CheckFn ==
    /\ fpc = "fixed"
    /\ check_fn_sig' = fixed
    /\ fpc' = "check_fn"
    /\ UNCHANGED <<sig, fixed, refixed, pipeline_vars, other_vars>>

FixupNext == Fixup \/ Refixup \/ CheckFn

FixupSpec == FixupInit /\ [][FixupNext]_vars

(***************************************************************************)
(* Occurrences of types inside a type: a path is a sequence of child       *)
(* positions (1 for the referent of a Ref, i for the i-th argument of an   *)
(* opaque type when that argument is a type).                              *)
(***************************************************************************)
ChildIdx(t) ==
    CASE t[1] = "Ref" -> {1}
      [] t[1] = "Opaque" -> {i \in 1..Len(t[3]) : t[3][i][1] = "Type"}
      [] OTHER -> {}

ChildAt(t, i) == IF t[1] = "Ref" THEN t[3] ELSE t[3][i][2]

RECURSIVE Paths(_)
Paths(t) ==
    {<<>>} \cup UNION {{<<i>> \o p : p \in Paths(ChildAt(t, i))} : i \in ChildIdx(t)}

RECURSIVE Sub(_, _)
Sub(t, p) ==
    IF p = <<>> THEN t
    ELSE IF Head(p) \in ChildIdx(t) THEN Sub(ChildAt(t, Head(p)), Tail(p))
    ELSE None

OpaqueOccurrences(t) == {p \in Paths(t) : Sub(t, p)[1] = "Opaque"}

\* The i-th (1-based) declared generic parameter of def_id, as an argument.
DeclaredParam(def_id, i) ==
    LET k == generics_of(def_id)[i] IN
    CASE k = "Type" -> <<"Type", <<"Param", i - 1>>>>
      [] k = "Lifetime" -> <<"Lifetime", <<"ReEarlyBound", i - 1>>>>
      [] k = "Const" -> <<"Const", <<"CParam", i - 1>>>>

IsUnresolvedTyOrRegion(a) ==
    a = <<"Type", <<"Infer">>>> \/ a = <<"Lifetime", <<"ReVar">>>>

\* What the argument at position i of the opaque occurrence o is mapped to.
ExpectedArg(o, i) ==
    LET a == o[3][i] IN
    IF IsUnresolvedTyOrRegion(a) THEN DeclaredParam(o[2], i)
    ELSE IF a[1] = "Type" THEN <<"Type", fold_ty(a[2])>>
    ELSE a

MapsOpaqueOccurrences(in, out) ==
    \A p \in OpaqueOccurrences(in) :
        LET o == Sub(in, p)
            r == Sub(out, p) IN
        needs_infer(o) =>
            /\ r[1] = "Opaque"
            /\ r[2] = o[2]
            /\ Len(r[3]) = Len(generics_of(o[2]))
            /\ \A i \in 1..Len(r[3]) : r[3][i] = ExpectedArg(o, i)

\* C8: when fixup_opaque_types returns, every opaque-type occurrence of the
\* signature that contains an inference variable has become the same opaque
\* type whose i-th argument is the i-th declared parameter where the old
\* argument was itself a type or region variable, and the fixed-up old
\* argument otherwise; occurrences nested in arguments included.
C8_FixupMapsOpaqueArgs ==
    fpc = "fixed" =>
        \A k \in 1..Len(sig) : MapsOpaqueOccurrences(sig[k], fixed[k])

\* A fixed-up signature in which a nested opaque type had both a region
\* variable and a type variable replaced.
C8_Witness ==
    /\ fpc = "fixed"
    /\ sig[2] = <<"Opaque", 1, <<<<"Type",
                   <<"Opaque", 2, <<<<"Lifetime", <<"ReVar">>>>,
                                   <<"Type", <<"Infer">>>>>>>>>>>>>>
    /\ fixed[2] = <<"Opaque", 1, <<<<"Type",
                   <<"Opaque", 2, <<<<"Lifetime", <<"ReEarlyBound", 0>>>>,
                                   <<"Type", <<"Param", 1>>>>>>>>>>>>>>

\* C9: after fixup_opaque_types no opaque type of the signature has an
\* inference variable anywhere inside its generic arguments.
C9_NoInferInsideOpaque ==
    fpc = "fixed" =>
        \A k \in 1..Len(fixed) :
            \A p \in OpaqueOccurrences(fixed[k]) : ~needs_infer(Sub(fixed[k], p))

\* C10: fixup_opaque_types applied to its own output returns that output.
C10_FixupIdempotent ==
    fpc = "refixed" => refixed = fixed

\* A second application on a signature that the first one changed and in
\* which an inference variable is still present.
C10_Witness ==
    /\ fpc = "refixed"
    /\ fixed # sig
    /\ \E k \in 1..Len(fixed) : needs_infer(fixed[k])

\* The constant arguments found in the opaque-type occurrences of a type.
OpaqueConstArgs(t) ==
    {Sub(t, p)[3][i][2] : <<p, i>> \in
        {<<q, j>> \in OpaqueOccurrences(t) \X (1..2) :
            /\ j <= Len(Sub(t, q)[3])
            /\ Sub(t, q)[3][j][1] = "Const"}}

HasUnresolvedConstArg(s) ==
    \E k \in 1..Len(s) : <<"CInfer">> \in OpaqueConstArgs(s[k])

\* C11: when an opaque type of the signature has an unresolved const
\* inference variable as a const argument, fixup_opaque_types ends in bug!
\* and returns nothing; a signature it does return has, in its opaque types,
\* neither a const inference variable nor a const generic parameter put in
\* the place of one.
C11_ConstInferIsBug ==
    /\ (fpc \in {"fixed", "bug"} /\ HasUnresolvedConstArg(sig)) =>
            (fpc = "bug" /\ fixed = Bug)
    /\ fpc = "fixed" =>
            \A k \in 1..Len(fixed) :
                \A c \in OpaqueConstArgs(fixed[k]) : c = <<"CValue">>

\* bug! reached through a const inference variable of an opaque type nested
\* in the type argument of another opaque type.
C11_Witness ==
    /\ fpc = "bug"
    /\ fixed = Bug
    /\ sig[2] = <<"Opaque", 1, <<<<"Type",
                   <<"Opaque", 3, <<<<"Const", <<"CInfer">>>>,
                                   <<"Type", <<"Int">>>>>>>>>>>>>>

\* C12: for a function item the body check starts only after
\* fixup_opaque_types has returned, and the signature handed to check_fn is
\* the fixed-up form of the liberated and normalized signature: before the
\* fixup has run, and when it ended in bug!, check_fn has received nothing.
C12_CheckFnGetsFixedSig ==
    /\ fpc \in {"input", "bug"} => check_fn_sig = None
    /\ check_fn_sig # None =>
            /\ fpc = "check_fn"
            /\ fixed \notin {None, Bug}
            /\ check_fn_sig = fixed
            /\ Len(check_fn_sig) = Len(sig)
            /\ \A k \in 1..Len(sig) :
                    MapsOpaqueOccurrences(sig[k], check_fn_sig[k])

\* check_fn entered with a signature that the fixup changed.
C12_Witness ==
    /\ fpc = "check_fn"
    /\ check_fn_sig # sig
    /\ sig[2] = <<"Opaque", 2, <<<<"Lifetime", <<"ReVar">>>>,
                                <<"Type", <<"Infer">>>>>>>>
    /\ check_fn_sig[2] = <<"Opaque", 2, <<<<"Lifetime", <<"ReEarlyBound", 0>>>>,
                                         <<"Type", <<"Param", 1>>>>>>>>

(***************************************************************************)
(* The per-item pipeline, typeck_with_fallback.                            *)
(*                                                                         *)
(* Variables of the store have a kind: "general" and "diverging" type      *)
(* variables, "opaque" type variables (created by instantiating an opaque  *)
(* type), "region" variables and "const" inference variables.  A node of   *)
(* the in-progress table holds <<"Var", v>> or a resolved <<"Ty", t>>.     *)
(* Obligations are <<"Proj", a, b>> (once a is known, b is a's type; a may *)
(* be a const variable, which nothing resolves) and <<"Sized", a>>.        *)
(***************************************************************************)

\* Obligations registered while checking one body.
MaxObl == 2
\* Calls whose resolution the body check deferred.
MaxDeferredCalls == 1

TypeKinds == {"general", "diverging", "opaque"}
Kinds == TypeKinds \cup {"region", "const"}

IsPrefix(a, b) == Len(a) <= Len(b) /\ SubSeq(b, 1, Len(a)) = a

Range(f) == {f[i] : i \in DOMAIN f}

\* The elements of a set of integers, ascending.
RECURSIVE Ascending(_)
Ascending(S) ==
    IF S = {} THEN <<>>
    ELSE LET m == CHOOSE x \in S : \A y \in S : x <= y
         IN  <<m>> \o Ascending(S \ {m})

\* ---- obligation selection ---------------------------------------------

\* One attempt at one obligation under the store st.
Attempt(ob, st) ==
    CASE ob[1] = "Sized" ->
            [outcome |-> IF st[ob[2]] = Unresolved THEN "ambiguous" ELSE "ok",
             st |-> st]
      [] ob[1] = "Proj" ->
            (IF st[ob[2]] = Unresolved
             THEN [outcome |-> "ambiguous", st |-> st]
             ELSE IF st[ob[3]] = Unresolved
             THEN [outcome |-> "ok", st |-> [st EXCEPT ![ob[3]] = st[ob[2]]]]
             ELSE [outcome |-> IF st[ob[3]] = st[ob[2]] THEN "ok" ELSE "error",
                   st |-> st])

\* One round over the queue: ambiguous obligations are kept, as they are;
\* failed ones are reported and dropped; the others are discharged.
RECURSIVE SelectRound(_, _, _, _)
SelectRound(queue, st, pending, errs) ==
    IF queue = <<>> THEN [st |-> st, pending |-> pending, errs |-> errs]
    ELSE LET r == Attempt(Head(queue), st) IN
         SelectRound(Tail(queue), r.st,
                     IF r.outcome = "ambiguous"
                     THEN Append(pending, Head(queue)) ELSE pending,
                     IF r.outcome = "error"
                     THEN Append(errs, <<"obligation", Head(queue)>>) ELSE errs)

\* select_where_possible: rounds are repeated while one makes progress.
RECURSIVE select_where_possible(_, _, _)
select_where_possible(queue, st, errs) ==
    LET r == SelectRound(queue, st, <<>>, errs) IN
    IF r.pending = queue THEN r
    ELSE select_where_possible(r.pending, r.st, r.errs)

\* select_all_obligations_or_error: what is still pending after selection
\* is reported as ambiguous, and the queue is left empty.
select_all_obligations_or_error(queue, st, errs) ==
    LET r == select_where_possible(queue, st, errs) IN
    [st |-> r.st,
     pending |-> <<>>,
     errs |-> r.errs \o [i \in 1..Len(r.pending) |-> <<"ambiguity", r.pending[i]>>]]

\* ---- fallback -----------------------------------------------------------

\* fcx.unsolved_variables(): the unresolved type variables.
unsolved_variables(st, kd) ==
    Ascending({v \in Vars : kd[v] \in TypeKinds /\ st[v] = Unresolved})

\* fcx.fallback_if_possible(ty, mode): the default of variable v, or None
\* when v gets none in this mode.
fallback_if_possible(st, kd, v, mode) ==
    IF st[v] # Unresolved THEN None
    ELSE CASE kd[v] = "diverging" -> <<"Ty", "Never">>
           [] kd[v] = "general" -> <<"Ty", "Unit">>
           [] kd[v] = "opaque" ->
                 (IF mode = "All" THEN <<"Ty", "Opaque">> ELSE None)
           [] OTHER -> None

\* Mutant of FallbackLoop: the loop leaves after its first variable.
RECURSIVE FallbackLoopFirstOnly(_, _, _, _, _, _, _)
FallbackLoopFirstOnly(vs, st, kd, flag, dflt, mode, pass) ==
    IF vs = <<>> THEN [st |-> st, flag |-> flag, dflt |-> dflt]
    ELSE LET v == Head(vs)
             d == fallback_if_possible(st, kd, v, mode)
         IN  IF d = None
             THEN [st |-> st, flag |-> flag, dflt |-> dflt]
             ELSE [st |-> [st EXCEPT ![v] = d[2]], flag |-> TRUE,
                   dflt |-> [dflt EXCEPT ![v] = <<pass, d[2]>>]]

\* Mutant of FallbackLoop: the flag is assigned the result of each call of
\* fallback_if_possible (= in place of |=).
RECURSIVE FallbackLoopAssignsFlag(_, _, _, _, _, _, _)
FallbackLoopAssignsFlag(vs, st, kd, flag, dflt, mode, pass) ==
    IF vs = <<>> THEN [st |-> st, flag |-> flag, dflt |-> dflt]
    ELSE LET v == Head(vs)
             d == fallback_if_possible(st, kd, v, mode)
         IN  IF d = None
             THEN FallbackLoopAssignsFlag(Tail(vs), st, kd, FALSE, dflt, mode, pass)
             ELSE FallbackLoopAssignsFlag(Tail(vs), [st EXCEPT ![v] = d[2]], kd,
                                          TRUE,
                                          [dflt EXCEPT ![v] = <<pass, d[2]>>],
                                          mode, pass)

\* for ty in &fcx.unsolved_variables() {
\*     fallback_has_occurred |= fcx.fallback_if_possible(ty, mode); }
RECURSIVE FallbackLoop(_, _, _, _, _, _, _)
FallbackLoop(vs, st, kd, flag, dflt, mode, pass) ==
    IF vs = <<>> THEN [st |-> st, flag |-> flag, dflt |-> dflt]
    ELSE LET v == Head(vs)
             d == fallback_if_possible(st, kd, v, mode)
         IN  IF d = None
             THEN FallbackLoop(Tail(vs), st, kd, flag, dflt, mode, pass)
             ELSE FallbackLoop(Tail(vs), [st EXCEPT ![v] = d[2]], kd, TRUE,
                               [dflt EXCEPT ![v] = <<pass, d[2]>>], mode, pass)

\* ---- later passes -------------------------------------------------------

\* closure_analyze resolves every deferred call of every closure of the
\* body: the calls left on the list afterwards.
closure_analyze(calls) == <<>>

\* regionck: region variables get their final value; each violating region
\* is reported.
regionck_resolve(st, kd) ==
    [v \in Vars |-> IF kd[v] = "region" /\ st[v] = Unresolved
                    THEN "ReErased" ELSE st[v]]

regionck_errors(violations) ==
    LET vs == Ascending(violations) IN
    [i \in 1..Len(vs) |-> <<"region", vs[i]>>]

\* Full resolution of one entry of the in-progress table.
resolve(entry, st) ==
    IF entry[1] = "Var" /\ st[entry[2]] # Unresolved
    THEN <<"Ty", st[entry[2]]>>
    ELSE entry

IsGround(entry) == entry[1] = "Ty"

\* resolve_type_vars_in_body: the resolved table, or Bug when an entry is
\* still not ground.
resolve_type_vars_in_body(table, st) ==
    LET final == [n \in DOMAIN table |-> resolve(table[n], st)] IN
    IF \A n \in DOMAIN final : IsGround(final[n]) THEN final ELSE Bug

(***************************************************************************)
(* What checking a body can leave behind (check_fn for a function, the     *)
(* else branch for a constant or static): variables, some of the general   *)
(* ones already unified with a type, obligations, deferred calls, types    *)
(* whose sizedness is still to be required, and region constraints.        *)
(***************************************************************************)
\* The candidate obligations, numbered: Proj(a, b) for a # b, then Sized(a).
Candidate(k) ==
    IF k <= NVars * NVars
    THEN <<"Proj", ((k - 1) \div NVars) + 1, ((k - 1) % NVars) + 1>>
    ELSE <<"Sized", k - NVars * NVars>>

CandidateOk(k, kd) ==
    LET c == Candidate(k) IN
    IF c[1] = "Proj"
    THEN c[2] # c[3] /\ kd[c[2]] \in TypeKinds \cup {"const"} /\ kd[c[3]] \in TypeKinds
    ELSE kd[c[2]] \in TypeKinds

ObligationQueues(kd) ==
    LET ok == {k \in 1..(NVars * NVars + NVars) : CandidateOk(k, kd)}
        chosen == {S \in SUBSET ok : Cardinality(S) <= MaxObl}
    IN  {[i \in 1..Cardinality(S) |-> Candidate(Ascending(S)[i])] : S \in chosen}

BodyStores(kd) ==
    {st \in [Vars -> {Unresolved, "Int"}] :
        \A v \in Vars : st[v] # Unresolved => kd[v] = "general"}

Init ==
    /\ FixupIdle
    /\ pc = "check_body"
    /\ item \in {"fn", "const"}
    /\ FreshFnCtxt
    /\ OthersIdle

\* check_fn(...) / check_expr_coercable_to_type(...): the body is checked.
CheckBody ==
    /\ pc = "check_body"
    /\ \E kd \in [Vars -> Kinds] :
       \E st \in BodyStores(kd), obs \in ObligationQueues(kd),
          calls \in 0..MaxDeferredCalls,
          sized \in SUBSET {v \in Vars : kd[v] \in TypeKinds},
          viol \in SUBSET {v \in Vars : kd[v] = "region"} :
            /\ var_kind' = kd
            /\ store' = st
            /\ obligations' = obs
            /\ deferred_call_resolutions' = [i \in 1..calls |-> i]
            /\ deferred_sized_obligations' = Ascending(sized)
            /\ region_violations' = viol
            /\ node_types' = [v \in Vars |-> <<"Var", v>>]
    /\ trace' = Append(trace, IF item = "fn" THEN "check_fn"
                              ELSE "check_expr_coercable_to_type")
    /\ pc' = "Selecting"
    /\ UNCHANGED <<item, resolved_calls, unsolved, errors, fallback_has_occurred,
                   typeck_results, published, select_flags, defaulted, fixup_vars, other_vars>>

\* Mutant of SelectStep: an obligation that failed is reported and put back
\* on the queue.
SelectStepRequeuesFailed(flag, next) ==
    LET r == select_where_possible(obligations, store, errors)
        Kept(ob) == \/ \E i \in 1..Len(r.pending) : r.pending[i] = ob
                    \/ \E i \in 1..Len(r.errs) : r.errs[i] = <<"obligation", ob>>
    IN
    /\ store' = r.st
    /\ obligations' = SelectSeq(obligations, Kept)
    /\ errors' = r.errs
    /\ select_flags' = Append(select_flags, flag)
    /\ trace' = Append(trace, "select_obligations_where_possible")
    /\ pc' = next

\* fcx.select_obligations_where_possible(flag, |_| {}) followed by a move
\* to the statement `next`.
SelectStep(flag, next) ==
    LET r == select_where_possible(obligations, store, errors) IN
    /\ store' = r.st
    /\ obligations' = r.pending
    /\ errors' = r.errs
    /\ select_flags' = Append(select_flags, flag)
    /\ trace' = Append(trace, "select_obligations_where_possible")
    /\ pc' = next

\* for ty in &fcx.unsolved_variables() { ... fallback_if_possible(ty, mode) }
\* followed by a move to the statement `next`.
FallbackStep(mode, next) ==
    LET vs == unsolved_variables(store, var_kind)
        r == FallbackLoop(vs, store, var_kind, fallback_has_occurred,
                          defaulted, mode, pc) IN
    /\ unsolved' = vs
    /\ store' = r.st
    /\ fallback_has_occurred' = r.flag
    /\ defaulted' = r.dflt
    /\ trace' = Append(trace, "fallback " \o mode)
    /\ pc' = next

\* fcx.select_obligations_where_possible(false, |_| {});
\* let mut fallback_has_occurred = false;
Selecting ==
    /\ pc = "Selecting"
    /\ SelectStep(FALSE, "FallbackNoOpaque")
    /\ fallback_has_occurred' = FALSE
    /\ UNCHANGED <<item, var_kind, region_violations, node_types,
                   deferred_call_resolutions, deferred_sized_obligations,
                   resolved_calls, unsolved, typeck_results, published,
                   defaulted, fixup_vars, other_vars>>

\* Mutant of FallbackNoOpaque: the first pass runs in FallbackMode::All.
FallbackNoOpaqueInModeAll ==
    /\ pc = "FallbackNoOpaque"
    /\ FallbackStep("All", "SelectingAgain")
    /\ UNCHANGED <<item, var_kind, region_violations, node_types, obligations,
                   deferred_call_resolutions, deferred_sized_obligations,
                   resolved_calls, errors, typeck_results, published,
                   select_flags, fixup_vars, other_vars>>

\* The first fallback pass, FallbackMode::NoOpaque.
FallbackNoOpaque ==
    /\ pc = "FallbackNoOpaque"
    /\ FallbackStep("NoOpaque", "SelectingAgain")
    /\ UNCHANGED <<item, var_kind, region_violations, node_types, obligations,
                   deferred_call_resolutions, deferred_sized_obligations,
                   resolved_calls, errors, typeck_results, published,
                   select_flags, fixup_vars, other_vars>>

\* fcx.select_obligations_where_possible(fallback_has_occurred, |_| {});
SelectingAgain ==
    /\ pc = "SelectingAgain"
    /\ SelectStep(fallback_has_occurred, "FallbackAll")
    /\ UNCHANGED <<item, var_kind, region_violations, node_types,
                   deferred_call_resolutions, deferred_sized_obligations,
                   resolved_calls, unsolved, fallback_has_occurred,
                   typeck_results, published, defaulted, fixup_vars, other_vars>>

\* The second fallback pass, FallbackMode::All.
FallbackAll ==
    /\ pc = "FallbackAll"
    /\ FallbackStep("All", "FinalSelecting")
    /\ UNCHANGED <<item, var_kind, region_violations, node_types, obligations,
                   deferred_call_resolutions, deferred_sized_obligations,
                   resolved_calls, errors, typeck_results, published,
                   select_flags, fixup_vars, other_vars>>

\* Mutant of FinalSelecting: fallback and selection are repeated for as
\* long as the last fallback pass defaulted something.
FinalSelectingUntilFixpoint ==
    /\ pc = "FinalSelecting"
    /\ SelectStep(fallback_has_occurred,
                  IF fallback_has_occurred THEN "FallbackNoOpaque"
                  ELSE "check_casts")
    /\ fallback_has_occurred' = FALSE
    /\ UNCHANGED <<item, var_kind, region_violations, node_types,
                   deferred_call_resolutions, deferred_sized_obligations,
                   resolved_calls, unsolved, typeck_results, published,
                   defaulted, fixup_vars, other_vars>>

\* See if we can make any more progress.
FinalSelecting ==
    /\ pc = "FinalSelecting"
    /\ SelectStep(fallback_has_occurred, "check_casts")
    /\ UNCHANGED <<item, var_kind, region_violations, node_types,
                   deferred_call_resolutions, deferred_sized_obligations,
                   resolved_calls, unsolved, fallback_has_occurred,
                   typeck_results, published, defaulted, fixup_vars, other_vars>>

\* fcx.check_casts();
CheckCasts ==
    /\ pc = "check_casts"
    /\ trace' = Append(trace, "check_casts")
    /\ pc' = "closure_analyze"
    /\ UNCHANGED <<item, fcx_vars, fallback_has_occurred, typeck_results,
                   published, select_flags, defaulted, fixup_vars, other_vars>>

\* Mutant of ClosureAnalyze: the analysis and the assertion are left out.
ClosureAnalyzeSkipped ==
    /\ pc = "closure_analyze"
    /\ trace' = Append(trace, "closure_analyze")
    /\ pc' = "resolve_generator_interiors"
    /\ UNCHANGED <<item, fcx_vars, fallback_has_occurred, typeck_results,
                   published, select_flags, defaulted, fixup_vars, other_vars>>

\* Mutant of ClosureAnalyze: the pass does not start while a call
\* resolution is still deferred.
ClosureAnalyzeAwaitsCalls ==
    /\ pc = "closure_analyze"
    /\ deferred_call_resolutions = <<>>
    /\ trace' = Append(trace, "closure_analyze")
    /\ pc' = "resolve_generator_interiors"
    /\ UNCHANGED <<item, fcx_vars, fallback_has_occurred, typeck_results,
                   published, select_flags, defaulted, fixup_vars, other_vars>>

\* fcx.closure_analyze(body);
\* assert!(fcx.deferred_call_resolutions.borrow().is_empty());
ClosureAnalyze ==
    /\ pc = "closure_analyze"
    /\ deferred_call_resolutions' = closure_analyze(deferred_call_resolutions)
    /\ resolved_calls' = resolved_calls + Len(deferred_call_resolutions)
                            - Len(deferred_call_resolutions')
    /\ trace' = Append(trace, "closure_analyze")
    /\ pc' = IF deferred_call_resolutions' = <<>>
             THEN "resolve_generator_interiors" ELSE "ice"
    /\ UNCHANGED <<item, var_kind, store, region_violations, node_types,
                   obligations, deferred_sized_obligations, unsolved, errors,
                   fallback_has_occurred, typeck_results, published,
                   select_flags, defaulted, fixup_vars, other_vars>>

\* fcx.resolve_generator_interiors(def_id.to_def_id());
ResolveGeneratorInteriors ==
    /\ pc = "resolve_generator_interiors"
    /\ trace' = Append(trace, "resolve_generator_interiors")
    /\ pc' = "deferred_sized_obligations"
    /\ UNCHANGED <<item, fcx_vars, fallback_has_occurred, typeck_results,
                   published, select_flags, defaulted, fixup_vars, other_vars>>

\* for (ty, span, code) in fcx.deferred_sized_obligations.borrow_mut().drain(..)
\*     { fcx.require_type_is_sized(fcx.normalize_ty(span, ty), span, code); }
DrainDeferredSized ==
    /\ pc = "deferred_sized_obligations"
    /\ obligations' = obligations \o
            [i \in 1..Len(deferred_sized_obligations) |->
                <<"Sized", deferred_sized_obligations[i]>>]
    /\ deferred_sized_obligations' = <<>>
    /\ trace' = Append(trace, "deferred_sized_obligations")
    /\ pc' = "select_all_obligations_or_error"
    /\ UNCHANGED <<item, var_kind, store, region_violations, node_types,
                   deferred_call_resolutions, resolved_calls, unsolved, errors,
                   fallback_has_occurred, typeck_results, published,
                   select_flags, defaulted, fixup_vars, other_vars>>

\* Mutant of SelectAllOrError: the region check is left out.
SelectAllOrErrorThenWriteback ==
    LET r == select_all_obligations_or_error(obligations, store, errors) IN
    /\ pc = "select_all_obligations_or_error"
    /\ store' = r.st
    /\ obligations' = r.pending
    /\ errors' = r.errs
    /\ trace' = Append(trace, "select_all_obligations_or_error")
    /\ pc' = "resolve_type_vars_in_body"
    /\ UNCHANGED <<item, var_kind, region_violations, node_types,
                   deferred_call_resolutions, deferred_sized_obligations,
                   resolved_calls, unsolved, fallback_has_occurred,
                   typeck_results, published, select_flags, defaulted,
                   fixup_vars, other_vars>>

\* Mutant of SelectAllOrError: the last step selects where possible only;
\* what is still ambiguous stays on the queue, unreported.
SelectAllLeavesAmbiguous ==
    LET r == select_where_possible(obligations, store, errors) IN
    /\ pc = "select_all_obligations_or_error"
    /\ store' = r.st
    /\ obligations' = r.pending
    /\ errors' = r.errs
    /\ trace' = Append(trace, "select_all_obligations_or_error")
    /\ pc' = "regionck"
    /\ UNCHANGED <<item, var_kind, region_violations, node_types,
                   deferred_call_resolutions, deferred_sized_obligations,
                   resolved_calls, unsolved, fallback_has_occurred,
                   typeck_results, published, select_flags, defaulted,
                   fixup_vars, other_vars>>

\* fcx.select_all_obligations_or_error();
SelectAllOrError ==
    LET r == select_all_obligations_or_error(obligations, store, errors) IN
    /\ pc = "select_all_obligations_or_error"
    /\ store' = r.st
    /\ obligations' = r.pending
    /\ errors' = r.errs
    /\ trace' = Append(trace, "select_all_obligations_or_error")
    /\ pc' = "regionck"
    /\ UNCHANGED <<item, var_kind, region_violations, node_types,
                   deferred_call_resolutions, deferred_sized_obligations,
                   resolved_calls, unsolved, fallback_has_occurred,
                   typeck_results, published, select_flags, defaulted,
                   fixup_vars, other_vars>>

\* Mutant of Regionck: a reported violation ends the pipeline.
RegionckAbortsOnViolation ==
    /\ pc = "regionck"
    /\ store' = regionck_resolve(store, var_kind)
    /\ errors' = errors \o regionck_errors(region_violations)
    /\ trace' = Append(trace, IF item = "fn" THEN "regionck_fn" ELSE "regionck_expr")
    /\ pc' = IF region_violations = {} THEN "resolve_type_vars_in_body" ELSE "ice"
    /\ UNCHANGED <<item, var_kind, region_violations, node_types, obligations,
                   deferred_call_resolutions, deferred_sized_obligations,
                   resolved_calls, unsolved, fallback_has_occurred,
                   typeck_results, published, select_flags, defaulted,
                   fixup_vars, other_vars>>

\* Mutant of Regionck: the pass also writes the resolved types into the
\* in-progress table.
RegionckWritesTypes ==
    /\ pc = "regionck"
    /\ store' = regionck_resolve(store, var_kind)
    /\ node_types' = [n \in DOMAIN node_types |-> resolve(node_types[n], store')]
    /\ errors' = errors \o regionck_errors(region_violations)
    /\ trace' = Append(trace, IF item = "fn" THEN "regionck_fn" ELSE "regionck_expr")
    /\ pc' = "resolve_type_vars_in_body"
    /\ UNCHANGED <<item, var_kind, region_violations, obligations,
                   deferred_call_resolutions, deferred_sized_obligations,
                   resolved_calls, unsolved, fallback_has_occurred,
                   typeck_results, published, select_flags, defaulted,
                   fixup_vars, other_vars>>

\* if fn_decl.is_some() { fcx.regionck_fn(id, body) } else { fcx.regionck_expr(body) }
Regionck ==
    /\ pc = "regionck"
    /\ store' = regionck_resolve(store, var_kind)
    /\ errors' = errors \o regionck_errors(region_violations)
    /\ trace' = Append(trace, IF item = "fn" THEN "regionck_fn" ELSE "regionck_expr")
    /\ pc' = "resolve_type_vars_in_body"
    /\ UNCHANGED <<item, var_kind, region_violations, node_types, obligations,
                   deferred_call_resolutions, deferred_sized_obligations,
                   resolved_calls, unsolved, fallback_has_occurred,
                   typeck_results, published, select_flags, defaulted,
                   fixup_vars, other_vars>>

\* Mutant of Writeback: a variable left unresolved is reported as an error
\* of the program being compiled, its entries are kept as they are and the
\* pipeline goes on to return the table.
WritebackReportsLeftover ==
    LET r == resolve_type_vars_in_body(node_types, store) IN
    /\ pc = "resolve_type_vars_in_body"
    /\ typeck_results' = IF r = Bug
                          THEN [n \in DOMAIN node_types |-> resolve(node_types[n], store)]
                          ELSE r
    /\ errors' = IF r = Bug THEN Append(errors, <<"unresolved", 0>>) ELSE errors
    /\ trace' = Append(trace, "resolve_type_vars_in_body")
    /\ pc' = "return"
    /\ UNCHANGED <<item, var_kind, store, region_violations, node_types,
                   obligations, deferred_call_resolutions,
                   deferred_sized_obligations, resolved_calls, unsolved,
                   fallback_has_occurred, published, select_flags, defaulted,
                   fixup_vars, other_vars>>

\* fcx.resolve_type_vars_in_body(body): the value of the closure passed to
\* Inherited::enter, bound to typeck_results.
Writeback ==
    /\ pc = "resolve_type_vars_in_body"
    /\ typeck_results' = resolve_type_vars_in_body(node_types, store)
    /\ trace' = Append(trace, "resolve_type_vars_in_body")
    /\ pc' = IF typeck_results' = Bug THEN "ice" ELSE "return"
    /\ UNCHANGED <<item, fcx_vars, fallback_has_occurred, published,
                   select_flags, defaulted, fixup_vars, other_vars>>

\* Mutant of Return: the in-progress table is handed out.
ReturnInProgressTable ==
    /\ pc = "return"
    /\ published' = node_types
    /\ pc' = "done"
    /\ UNCHANGED <<item, fcx_vars, fallback_has_occurred, typeck_results,
                   trace, select_flags, defaulted, fixup_vars, other_vars>>

\* assert_eq!(typeck_results.hir_owner, id.owner); typeck_results
Return ==
    /\ pc = "return"
    /\ published' = typeck_results
    /\ pc' = "done"
    /\ UNCHANGED <<item, fcx_vars, fallback_has_occurred, typeck_results,
                   trace, select_flags, defaulted, fixup_vars, other_vars>>

Next ==
    \/ CheckBody
    \/ Selecting
    \/ FallbackNoOpaque
    \/ SelectingAgain
    \/ FallbackAll
    \/ FinalSelecting
    \/ CheckCasts
    \/ ClosureAnalyze
    \/ ResolveGeneratorInteriors
    \/ DrainDeferredSized
    \/ SelectAllOrError
    \/ Regionck
    \/ Writeback
    \/ Return

Spec == Init /\ [][Next]_vars

\* typeck_with_fallback is straight-line code run by one thread: a statement
\* that can run does run.
LiveSpec == Init /\ [][Next]_vars /\ WF_vars(Next)

(***************************************************************************)
(* Properties of the pipeline.                                             *)
(***************************************************************************)
Called(name) == \E i \in 1..Len(trace) : trace[i] = name

IsSelectOrFallback(e) ==
    e \in {"select_obligations_where_possible", "fallback NoOpaque", "fallback All"}

IsLaterPass(e) ==
    e \in {"check_casts", "closure_analyze", "resolve_generator_interiors",
           "deferred_sized_obligations", "select_all_obligations_or_error",
           "regionck_fn", "regionck_expr", "resolve_type_vars_in_body"}

\* Selecting, FallbackNoOpaque, SelectingAgain, FallbackAll, FinalSelecting.
FallbackOrder ==
    <<"select_obligations_where_possible", "fallback NoOpaque",
      "select_obligations_where_possible", "fallback All",
      "select_obligations_where_possible">>

LaterOrder ==
    <<"check_casts", "closure_analyze", "resolve_generator_interiors",
      "deferred_sized_obligations", "select_all_obligations_or_error",
      IF item = "fn" THEN "regionck_fn" ELSE "regionck_expr",
      "resolve_type_vars_in_body">>

\* How many of the five selection and fallback rounds lie behind pc.
RoundsBehind ==
    CASE pc \in {"check_body", "Selecting"} -> 0
      [] pc = "FallbackNoOpaque" -> 1
      [] pc = "SelectingAgain" -> 2
      [] pc = "FallbackAll" -> 3
      [] pc = "FinalSelecting" -> 4
      [] OTHER -> 5

RegionReported == \E i \in 1..Len(errors) : errors[i][1] = "region"

\* C1: a published results table has no entry that is, or contains, an
\* unresolved variable.
C1_NoVariableLeak ==
    published # None =>
        \A n \in DOMAIN published : published[n][1] = "Ty"

\* A table published for a body with a region variable and with type
\* variables that only fallback resolved.
C1_Witness ==
    /\ pc = "done"
    /\ published # None
    /\ \E v \in Vars : var_kind[v] = "region"
    /\ \E v \in Vars : defaulted[v] # None

\* C2: selection and fallback run as Selecting, FallbackNoOpaque,
\* SelectingAgain, FallbackAll, FinalSelecting: at every point of a run the
\* rounds made so far are the first rounds of that order, as many as the
\* position in the pipeline says, and never more than these five.
C2_FallbackStateMachine ==
    SelectSeq(trace, IsSelectOrFallback) = SubSeq(FallbackOrder, 1, RoundsBehind)

\* A finished run in which both fallback passes defaulted a variable.
C2_Witness ==
    /\ pc = "done"
    /\ \E v \in Vars : defaulted[v] # None /\ defaulted[v][1] = "FallbackNoOpaque"
    /\ \E v \in Vars : defaulted[v] # None /\ defaulted[v][1] = "FallbackAll"

\* C3: a variable standing for an opaque type is never defaulted by the
\* NoOpaque pass; when fallback defaults it, it is the All pass that does,
\* after the selection round that follows the NoOpaque pass.
C3_OpaqueOnlyInAllPass ==
    \A v \in Vars :
        (var_kind[v] = "opaque" /\ defaulted[v] # None) =>
            /\ defaulted[v][1] = "FallbackAll"
            /\ Len(trace) >= 5
            /\ SubSeq(trace, 2, 5) = SubSeq(FallbackOrder, 1, 4)

\* An opaque variable defaulted by the All pass in a run whose NoOpaque
\* pass defaulted another variable.
C3_Witness ==
    /\ \E v \in Vars : var_kind[v] = "opaque" /\ defaulted[v] = <<"FallbackAll", "Opaque">>
    /\ \E v \in Vars : defaulted[v] # None /\ defaulted[v][1] = "FallbackNoOpaque"

ExpectedDefault(k) == IF k = "diverging" THEN "Never" ELSE "Unit"

DefaultedByNoOpaque(v) ==
    defaulted[v] # None /\ defaulted[v][1] = "FallbackNoOpaque"

\* The NoOpaque pass gives every unresolved non-opaque type variable its
\* default.
NoOpaquePassDefaults ==
    pc = "FallbackNoOpaque" =>
        \A v \in Vars :
            (var_kind[v] \in {"general", "diverging"} /\ store[v] = Unresolved) =>
                /\ store'[v] = ExpectedDefault(var_kind[v])
                /\ defaulted'[v] = <<"FallbackNoOpaque", ExpectedDefault(var_kind[v])>>

\* What the NoOpaque pass chose stays, up to the published table.
NoOpaqueDefaultKept ==
    \A v \in Vars :
        DefaultedByNoOpaque(v) =>
            /\ store[v] = defaulted[v][2]
            /\ published # None => published[v] = <<"Ty", defaulted[v][2]>>

C5_EmptyWhenFallbackBegins ==
    pc = "FallbackNoOpaque" => deferred_call_resolutions = <<>>

\* C5 as amended: the deferred-call-resolution list is empty once closure
\* analysis has run, which is after both fallback passes; a list that is not
\* empty then ends the pipeline in an internal error.
C5_EmptyAfterClosureAnalysis ==
    Called("closure_analyze") =>
        /\ SelectSeq(trace, IsSelectOrFallback) = FallbackOrder
        /\ deferred_call_resolutions = <<>> \/ pc = "ice"

\* Past closure analysis, with a call that was still deferred during both
\* fallback passes.
C5_Witness ==
    /\ pc = "resolve_generator_interiors"
    /\ resolved_calls > 0
    /\ deferred_call_resolutions = <<>>

\* C6: after the final selection come, once each and in this order: cast
\* checking, closure analysis, generator-interior resolution, the drain of
\* the deferred sized-type obligations, select-all-or-error, the region
\* check and writeback.
C6_LaterPassesInOrder ==
    LET later == SelectSeq(trace, IsLaterPass) IN
    /\ IsPrefix(later, LaterOrder)
    /\ later # <<>> => SelectSeq(trace, IsSelectOrFallback) = FallbackOrder
    /\ pc \in {"return", "done"} => later = LaterOrder

\* A finished run of a constant's pipeline in which the region check
\* reported a violation.
C6_Witness ==
    /\ pc = "done"
    /\ item = "const"
    /\ SelectSeq(trace, IsLaterPass) = LaterOrder
    /\ RegionReported

\* C7 as claimed: when a region violation has been reported, writeback has
\* already run.
C7_WritebackBeforeRegionReport ==
    RegionReported => Called("resolve_type_vars_in_body")

\* C7 as amended: a reported region violation does not block writeback;
\* when it is reported writeback has not run yet and is the next pass.
C7_RegionReportThenWriteback ==
    RegionReported =>
        IF Called("resolve_type_vars_in_body")
        THEN \E i, j \in 1..Len(trace) :
                /\ i < j
                /\ trace[i] \in {"regionck_fn", "regionck_expr"}
                /\ trace[j] = "resolve_type_vars_in_body"
        ELSE pc = "resolve_type_vars_in_body"

\* A table published after a region violation was reported.
C7_Witness ==
    /\ RegionReported
    /\ pc = "done"
    /\ published # None

\* ---- C13 ------------------------------------------------------------------

\* Writeback has run and an entry of the in-progress table names a variable
\* that the store has not resolved.
LeftoverAtWriteback ==
    /\ Called("resolve_type_vars_in_body")
    /\ \E n \in DOMAIN node_types :
           /\ node_types[n][1] = "Var"
           /\ store[node_types[n][2]] = Unresolved

WritebackReportsNothing ==
    pc = "resolve_type_vars_in_body" => errors' = errors

NoStepAfterIce == pc # "ice"

\* C13: when writeback finds a variable still unresolved the pipeline ends
\* in an internal error: nothing is published for the item, writeback adds
\* no diagnostic to the reported errors, and no pass runs afterwards.
C13_LeftoverVariableIsIce ==
    /\ [](LeftoverAtWriteback =>
              (pc = "ice" /\ typeck_results = Bug /\ published = None))
    /\ [][WritebackReportsNothing]_vars
    /\ [][NoStepAfterIce]_vars

\* A const inference variable, which no pass resolves, was still in the
\* table when writeback ran.
C13_Witness ==
    /\ pc = "ice"
    /\ LeftoverAtWriteback
    /\ var_kind[1] = "const"
    /\ store[1] = Unresolved
    /\ published = None

\* ---- C14 ------------------------------------------------------------------

SelectPcs == {"Selecting", "SelectingAgain", "FinalSelecting"}

ObligationReports ==
    SelectSeq(errors, LAMBDA e : e[1] = "obligation")

NoObligationReportedTwice ==
    \A i, j \in 1..Len(ObligationReports) :
        ObligationReports[i] = ObligationReports[j] => i = j

\* One select_obligations_where_possible call, seen from outside: under the
\* store it leaves, the queue is the old queue restricted to the obligations
\* blocked on an unresolved variable, and the new reports are exactly the
\* removed obligations whose two sides differ.
SelectLeavesAmbiguousOnly ==
    pc \in SelectPcs =>
        LET Blocked(ob) == store'[ob[2]] = Unresolved
            failed == {ob \in Range(obligations) :
                          /\ ~Blocked(ob)
                          /\ ob[1] = "Proj"
                          /\ store'[ob[3]] # store'[ob[2]]}
        IN  /\ obligations' = SelectSeq(obligations, Blocked)
            /\ IsPrefix(errors, errors')
            /\ Len(errors') = Len(errors) + Cardinality(failed)
            /\ {errors'[i] : i \in (Len(errors) + 1)..Len(errors')}
                   = {<<"obligation", ob>> : ob \in failed}
            /\ \A ob \in failed : <<"obligation", ob>> \notin Range(errors)

\* C14: each select_obligations_where_possible call leaves on the queue
\* exactly the obligations that are still ambiguous, unchanged and in order;
\* each obligation that failed is reported in that call and removed, and no
\* obligation failure is reported twice in a run.
C14_SelectKeepsOnlyAmbiguous ==
    [][SelectLeavesAmbiguousOnly]_vars /\ []NoObligationReportedTwice

\* An obligation blocked on an opaque type variable was kept by the first
\* two calls and failed in the third, after FallbackMode::All had defaulted
\* the variable; it was reported once and is off the queue.
C14_Witness ==
    /\ pc = "check_casts"
    /\ var_kind[1] = "opaque"
    /\ Len(select_flags) = 3
    /\ errors = <<<<"obligation", <<"Proj", 1, 2>>>>>>
    /\ obligations = <<>>

\* ---- C15 ------------------------------------------------------------------

QueuesEmpty ==
    /\ obligations = <<>>
    /\ deferred_call_resolutions = <<>>
    /\ deferred_sized_obligations = <<>>

\* From select_all_obligations_or_error on, and so where the pipeline ends,
\* nothing is pending.
EmptyAtPipelineEnd ==
    /\ Called("select_all_obligations_or_error") => QueuesEmpty
    /\ pc \in {"return", "done"} => Called("select_all_obligations_or_error")
    /\ pc \in {"return", "done", "ice"} => QueuesEmpty

\* The select_all_obligations_or_error step reports, as an ambiguity, every
\* obligation it finds blocked on a variable that is still unresolved.
AmbiguousIsReported ==
    pc = "select_all_obligations_or_error" =>
        \A i \in 1..Len(obligations) :
            store'[obligations[i][2]] = Unresolved =>
                /\ <<"ambiguity", obligations[i]>> \in Range(errors')
                /\ <<"ambiguity", obligations[i]>> \notin Range(errors)

\* C15: where an item's pipeline ends, the obligation queue, the deferred
\* call resolutions and the deferred sized obligations are all empty; an
\* obligation still ambiguous after the last fallback pass is reported as an
\* ambiguity error by select_all_obligations_or_error, not left pending.
C15_NothingPendingAtEnd ==
    []EmptyAtPipelineEnd /\ [][AmbiguousIsReported]_vars

\* The end of a run that had a deferred call and an obligation blocked on a
\* const variable until the last step.
C15_Witness ==
    /\ pc = "ice"
    /\ Called("select_all_obligations_or_error")
    /\ resolved_calls = 1
    /\ <<"ambiguity", <<"Proj", 1, 2>>>> \in Range(errors)
    /\ store[2] # Unresolved
    /\ QueuesEmpty

(***************************************************************************)
(* The typeck and has_typeck_results queries over the definitions of a     *)
(* crate.  A definition is an item or a closure; a closure is enclosed by  *)
(* an item or by another closure.  The table a pipeline returns is         *)
(* <<"TypeckResults", owner>> (typeck_results.hir_owner).                  *)
(***************************************************************************)

\* tcx.closure_base_def_id(def_id): the outermost definition enclosing a
\* closure, def_id itself when it is not a closure.
RECURSIVE closure_base_def_id(_)
closure_base_def_id(def_id) ==
    IF closure_parent[def_id] = 0 THEN def_id
    ELSE closure_base_def_id(closure_parent[def_id])

\* primary_body_of(tcx, id).is_some().
primary_body_of(def_id) == has_primary_body[def_id]

RECURSIVE has_typeck_results(_)
has_typeck_results(def_id) ==
    LET outer_def_id == closure_base_def_id(def_id) IN
    IF outer_def_id # def_id THEN has_typeck_results(outer_def_id)
    ELSE IF is_local[def_id] THEN primary_body_of(def_id)
    ELSE FALSE

RECURSIVE typeck(_, _, _)

\* Mutant of typeck_with_fallback: a closure is not redirected to its
\* outermost definition.
typeck_with_fallback_no_redirect(def_id, cache, ran) ==
    IF ~primary_body_of(def_id)
    THEN [result |-> Bug, cache |-> cache, ran |-> ran]
    ELSE [result |-> <<"TypeckResults", def_id>>, cache |-> cache,
          ran |-> ran \cup {def_id}]

\* typeck_with_fallback(tcx, def_id, fallback): the redirect of a closure,
\* span_bug! when there is no body to check, else the pipeline, whose table
\* is owned by def_id.
typeck_with_fallback(def_id, cache, ran) ==
    LET outer_def_id == closure_base_def_id(def_id) IN
    IF outer_def_id # def_id THEN typeck(outer_def_id, cache, ran)
    ELSE IF ~primary_body_of(def_id)
    THEN [result |-> Bug, cache |-> cache, ran |-> ran]
    ELSE [result |-> <<"TypeckResults", def_id>>, cache |-> cache,
          ran |-> ran \cup {def_id}]

\* tcx.typeck(def_id): the query; its provider runs once per key and the
\* value it returned is what every later request gets.
typeck(def_id, cache, ran) ==
    IF cache[def_id] # None
    THEN [result |-> cache[def_id], cache |-> cache, ran |-> ran]
    ELSE LET r == typeck_with_fallback(def_id, cache, ran) IN
         IF r.result = Bug THEN r
         ELSE [r EXCEPT !.cache = [r.cache EXCEPT ![def_id] = r.result]]

\* The crates drawn: each closure is enclosed by an earlier definition, only
\* items have a primary body, and a closure is local when its parent is.
QueryInit ==
    /\ closure_parent \in {f \in [Defs -> 0..(NDefs - 1)] : \A d \in Defs : f[d] < d}
    /\ has_primary_body \in {f \in [Defs -> BOOLEAN] :
                              \A d \in Defs : f[d] => closure_parent[d] = 0}
    /\ is_local \in {f \in [Defs -> BOOLEAN] :
                      \A d \in Defs : closure_parent[d] # 0 => f[d] = f[closure_parent[d]]}
    /\ typeck_cache = [d \in Defs |-> None]
    /\ pipelines_run = {}
    /\ answer = None
    /\ FixupIdle
    /\ PipelineIdle
    /\ CoercionIdle
    /\ BreakableIdle
    /\ ConstIdle
    /\ ParIdle
    /\ UnsafetyIdle

\* A request tcx.typeck(def_id) for a local definition.
Typeck ==
    \E def_id \in Defs :
        /\ is_local[def_id]
        /\ LET r == typeck(def_id, typeck_cache, pipelines_run) IN
           /\ typeck_cache' = r.cache
           /\ pipelines_run' = r.ran
           /\ answer' = <<"typeck", def_id, r.result>>
        /\ UNCHANGED <<closure_parent, has_primary_body, is_local,
                       fixup_vars, pipeline_vars, coercion_vars, breakable_vars, const_vars, par_vars, unsafety_vars>>

\* A request tcx.has_typeck_results(def_id).
HasTypeckResults ==
    \E def_id \in Defs :
        /\ answer' = <<"has_typeck_results", def_id, has_typeck_results(def_id)>>
        /\ UNCHANGED <<closure_parent, has_primary_body, is_local,
                       typeck_cache, pipelines_run, fixup_vars, pipeline_vars, coercion_vars, breakable_vars, const_vars,
                       par_vars, unsafety_vars>>

QueryNext == Typeck \/ HasTypeckResults

QuerySpec == QueryInit /\ [][QueryNext]_vars

IsClosure(d) == closure_parent[d] # 0

\* C16: a request for the typeck results of a closure enters no pipeline for
\* the closure and yields no table of its own: the answer is the table owned
\* by the closure's outermost enclosing item, the one memoized for that item
\* (or span_bug! when that item has no body); and has_typeck_results of a
\* closure is has_typeck_results of its outermost enclosing item.
C16_ClosureUsesOuterResults ==
    /\ \A d \in pipelines_run : ~IsClosure(d)
    /\ \A d \in Defs :
          (IsClosure(d) /\ typeck_cache[d] # None) =>
              /\ typeck_cache[d] = <<"TypeckResults", closure_base_def_id(d)>>
              /\ typeck_cache[d] = typeck_cache[closure_base_def_id(d)]
    /\ (answer[1] = "typeck" /\ IsClosure(answer[2])) =>
          LET outer == closure_base_def_id(answer[2]) IN
          IF has_primary_body[outer]
          THEN /\ answer[3] = <<"TypeckResults", outer>>
               /\ answer[3] = typeck_cache[outer]
               /\ outer \in pipelines_run
          ELSE answer[3] = Bug
    /\ \A d \in Defs :
          IsClosure(d) =>
              has_typeck_results(d) = has_typeck_results(closure_base_def_id(d))
    /\ (answer[1] = "has_typeck_results" /\ IsClosure(answer[2])) =>
          LET outer == closure_base_def_id(answer[2]) IN
          answer[3] = (is_local[outer] /\ has_primary_body[outer])

\* The typeck results of a closure nested in another closure were requested
\* before those of the enclosing function: the function's pipeline ran, and
\* its table is the answer.
C16_Witness ==
    /\ closure_parent[3] = 2
    /\ closure_parent[2] = 1
    /\ answer = <<"typeck", 3, <<"TypeckResults", 1>>>>
    /\ pipelines_run = {1}
    /\ typeck_cache[3] = <<"TypeckResults", 1>>
    /\ typeck_cache[2] = None

(***************************************************************************)
(* typeck_item_bodies: tcx.par_body_owners runs tcx.ensure().typeck(id)    *)
(* for the body owners of the crate on parallel workers.  Each call of     *)
(* typeck_with_fallback builds its own Inherited and runs the passes of    *)
(* the pipeline on it; the steps of different workers interleave.          *)
(***************************************************************************)

\* The bodies drawn: one obligation Proj(1, 2), variable 1 of any type kind,
\* variable 2 general and possibly already unified with a type; no deferred
\* call, no deferred sized obligation, no region variable.
ParBodies ==
    {[kind |-> kd, store |-> st, obligations |-> <<<<"Proj", 1, 2>>>>] :
        kd \in {k \in [Vars -> TypeKinds] :
                   \A v \in Vars \ {1} : k[v] = "general"},
        st \in {t \in [Vars -> {Unresolved, "Int"}] :
                   \A v \in Vars \ {2} : t[v] = Unresolved}}

\* The statements of typeck_with_fallback, in program order.
PassOrder ==
    <<"check_body", "Selecting", "FallbackNoOpaque", "SelectingAgain",
      "FallbackAll", "FinalSelecting", "check_casts", "closure_analyze",
      "resolve_generator_interiors", "deferred_sized_obligations",
      "select_all_obligations_or_error", "regionck",
      "resolve_type_vars_in_body", "return", "done">>

NextPc(p) ==
    PassOrder[(CHOOSE i \in 1..Len(PassOrder) : PassOrder[i] = p) + 1]

\* The effect of the statement at p on the Inherited inh of the call that
\* checks `body`.
PassOf(p, body, inh) ==
    CASE p = "check_body" ->
            [inh EXCEPT !.kind = body.kind, !.store = body.store,
                        !.obligations = body.obligations,
                        !.node_types = [v \in Vars |-> <<"Var", v>>]]
      [] p \in {"Selecting", "SelectingAgain", "FinalSelecting"} ->
            (LET r == select_where_possible(inh.obligations, inh.store, inh.errors)
             IN  [inh EXCEPT !.store = r.st, !.obligations = r.pending,
                             !.errors = r.errs])
      [] p \in {"FallbackNoOpaque", "FallbackAll"} ->
            (LET r == FallbackLoop(unsolved_variables(inh.store, inh.kind),
                                   inh.store, inh.kind, FALSE,
                                   [v \in Vars |-> None],
                                   IF p = "FallbackAll" THEN "All" ELSE "NoOpaque",
                                   p)
             IN  [inh EXCEPT !.store = r.st])
      [] p = "select_all_obligations_or_error" ->
            (LET r == select_all_obligations_or_error(inh.obligations,
                                                      inh.store, inh.errors)
             IN  [inh EXCEPT !.store = r.st, !.obligations = r.pending,
                             !.errors = r.errs])
      [] p = "regionck" ->
            [inh EXCEPT !.store = regionck_resolve(inh.store, inh.kind)]
      [] p = "resolve_type_vars_in_body" ->
            [inh EXCEPT !.typeck_results =
                            resolve_type_vars_in_body(inh.node_types, inh.store)]
      [] OTHER -> inh

\* Mutant of InheritedOf: every call works on one and the same Inherited.
InheritedShared(w) == 1

\* Inherited::build(tcx, def_id).enter(|inh| ...): the Inherited that the
\* call made by worker w works on is the one it built.
InheritedOf(w) == w

ParInit ==
    /\ worker_pc = [w \in Workers |-> "check_body"]
    /\ worker_body \in [Workers -> ParBodies]
    /\ inherited = [w \in Workers |-> FreshInherited]
    /\ par_published = [w \in Workers |-> None]
    /\ FixupIdle
    /\ PipelineIdle
    /\ CoercionIdle
    /\ BreakableIdle
    /\ ConstIdle
    /\ QueryIdle
    /\ UnsafetyIdle

\* Worker w runs the next statement of its call of typeck_with_fallback.
WorkerStep ==
    \E w \in Workers :
        LET p == worker_pc[w]
            i == InheritedOf(w)
            inh == PassOf(p, worker_body[w], inherited[i])
        IN
        /\ p \notin {"done", "ice", "idle"}
        /\ inherited' = [inherited EXCEPT ![i] = inh]
        /\ par_published' =
              IF p = "return"
              THEN [par_published EXCEPT ![w] = inh.typeck_results]
              ELSE par_published
        /\ worker_pc' =
              [worker_pc EXCEPT ![w] =
                  IF p = "resolve_type_vars_in_body" /\ inh.typeck_results = Bug
                  THEN "ice" ELSE NextPc(p)]
        /\ UNCHANGED <<worker_body, fixup_vars, pipeline_vars, coercion_vars, breakable_vars, const_vars, query_vars,
                       unsafety_vars>>

ParNext == WorkerStep

ParSpec == ParInit /\ [][ParNext]_vars

\* The table of an item checked with nothing else running: the statements
\* from p on, applied in program order to a private Inherited.
RECURSIVE RunAlone(_, _, _)
RunAlone(p, body, inh) ==
    IF p = "return" THEN inh.typeck_results
    ELSE LET after == PassOf(p, body, inh) IN
         IF p = "resolve_type_vars_in_body" /\ after.typeck_results = Bug
         THEN Bug
         ELSE RunAlone(NextPc(p), body, after)

\* A step that is not worker w's leaves the Inherited and the published
\* table of w's item as they were.
OnlyOwnWorkerWrites ==
    \A w \in Workers :
        worker_pc'[w] = worker_pc[w] =>
            /\ inherited'[w] = inherited[w]
            /\ par_published'[w] = par_published[w]

PublishedAsIfAlone ==
    \A w \in Workers :
        /\ worker_pc[w] = "done" =>
              par_published[w] = RunAlone("check_body", worker_body[w], FreshInherited)
        /\ worker_pc[w] # "done" => par_published[w] = None

\* C17: with items checked on parallel workers, the store, the obligation
\* queue and the in-progress table of an item are written only by steps of
\* the worker checking that item, and under every interleaving the table
\* published for an item is the one its pipeline yields when run alone.
C17_WorkersShareNothing ==
    [][OnlyOwnWorkerWrites]_vars /\ []PublishedAsIfAlone

\* Worker 1 has published the table of its item while worker 2, checking a
\* different body, is between its two fallback passes.
C17_Witness ==
    /\ worker_pc[1] = "done"
    /\ worker_pc[2] = "SelectingAgain"
    /\ worker_body[1].kind[1] = "diverging"
    /\ worker_body[2].kind[1] = "opaque"
    /\ par_published[1][1] = <<"Ty", "Never">>
    /\ inherited[2].store[1] = Unresolved
    /\ inherited[1].store # inherited[2].store

\* ---- C18 ------------------------------------------------------------------

PassRank(p) ==
    IF p = "ice" THEN Len(PassOrder) + 1
    ELSE CHOOSE i \in 1..Len(PassOrder) : PassOrder[i] = p

\* Every step moves to a later statement: none is run again, and the
\* statements after the last are not a state of the pipeline.
OnlyForward ==
    /\ pc \in Range(PassOrder)
    /\ pc' \in Range(PassOrder) \cup {"ice"}
    /\ PassRank(pc') > PassRank(pc)

PipelineEnded ==
    \/ pc = "done" /\ published \notin {None, Bug}
    \/ pc = "ice" /\ published = None

\* C18: a started pipeline eventually has either published the table of
\* its item or ended in an internal error; until then every step goes on to
\* a later statement, so that none is retried and none is stayed at.
C18_PipelineEnds ==
    <>PipelineEnded /\ [][OnlyForward]_vars

\* A run that has gone through all passes and published.
C18_Witness ==
    /\ pc = "done"
    /\ published \notin {None, Bug}
    /\ Len(trace) = 13

(***************************************************************************)
(* UnsafetyState.  A state is [def, unsafety, unsafe_push_count, from_fn]; *)
(* a block is [rules, hir_id].  The walk enters one nested block after the *)
(* other, calling recurse on the state of the enclosing one.               *)
(***************************************************************************)

\* Length of the longest chain of nested blocks entered.
MaxBlocks == 4

\* unsafe_push_count is a u32: two halves of 16 bits, each below 65536.
U32Half == 65536

BlockCheckMode ==
    {"DefaultBlock", "UnsafeBlock", "PushUnsafeBlock", "PopUnsafeBlock"}

\* u32::checked_add and u32::checked_sub: <<"Some", n>>, or None when the
\* result is not a u32.
checked_add(a, b) ==
    LET high == (a \div U32Half) + (b \div U32Half)
                    + ((a % U32Half) + (b % U32Half)) \div U32Half
    IN  IF high >= U32Half THEN None ELSE <<"Some", a + b>>

checked_sub(a, b) == IF a - b < 0 THEN None ELSE <<"Some", a - b>>

\* UnsafetyState::function(unsafety, def)
function(unsafety, def) ==
    [def |-> def, unsafety |-> unsafety, unsafe_push_count |-> 0,
     from_fn |-> TRUE]

\* Mutant of recurse: the state the call is made on is updated in place and
\* returned.
recurse_in_place(self, blk) ==
    IF self.unsafety = "Unsafe" /\ self.from_fn
    THEN [panicked |-> FALSE, self |-> self, ret |-> self]
    ELSE LET unsafety == self.unsafety
             count ==
                CASE blk.rules = "PushUnsafeBlock" ->
                        checked_add(self.unsafe_push_count, 1)
                  [] blk.rules = "PopUnsafeBlock" ->
                        checked_sub(self.unsafe_push_count, 1)
                  [] OTHER -> <<"Some", self.unsafe_push_count>>
         IN  IF count = None
             THEN [panicked |-> TRUE, self |-> self, ret |-> self]
             ELSE LET new ==
                        [def |-> IF blk.rules = "DefaultBlock"
                                 THEN self.def ELSE blk.hir_id,
                         unsafety |-> IF blk.rules = "UnsafeBlock"
                                      THEN "Unsafe" ELSE unsafety,
                         unsafe_push_count |-> count[2],
                         from_fn |-> FALSE]
                  IN  [panicked |-> FALSE, self |-> new, ret |-> new]

\* Mutant of recurse: an UnsafeBlock counts as a push.
recurse_unsafe_block_counts(self, blk) ==
    IF self.unsafety = "Unsafe" /\ self.from_fn
    THEN [panicked |-> FALSE, self |-> self, ret |-> self]
    ELSE LET unsafety == self.unsafety
             count ==
                CASE blk.rules \in {"PushUnsafeBlock", "UnsafeBlock"} ->
                        checked_add(self.unsafe_push_count, 1)
                  [] blk.rules = "PopUnsafeBlock" ->
                        checked_sub(self.unsafe_push_count, 1)
                  [] OTHER -> <<"Some", self.unsafe_push_count>>
         IN  IF count = None
             THEN [panicked |-> TRUE, self |-> self, ret |-> self]
             ELSE [panicked |-> FALSE,
                   self |-> self,
                   ret |-> [def |-> IF blk.rules = "DefaultBlock"
                                    THEN self.def ELSE blk.hir_id,
                            unsafety |-> IF blk.rules = "UnsafeBlock"
                                         THEN "Unsafe" ELSE unsafety,
                            unsafe_push_count |-> count[2],
                            from_fn |-> FALSE]]

\* Mutant of recurse: the arm for an unsafe function's own state is missing.
recurse_without_fn_arm(self, blk) ==
    LET unsafety == self.unsafety
        count ==
           CASE blk.rules = "PushUnsafeBlock" ->
                   checked_add(self.unsafe_push_count, 1)
             [] blk.rules = "PopUnsafeBlock" ->
                   checked_sub(self.unsafe_push_count, 1)
             [] OTHER -> <<"Some", self.unsafe_push_count>>
    IN  IF count = None
        THEN [panicked |-> TRUE, self |-> self, ret |-> self]
        ELSE [panicked |-> FALSE,
              self |-> self,
              ret |-> [def |-> IF blk.rules = "DefaultBlock"
                               THEN self.def ELSE blk.hir_id,
                       unsafety |-> IF blk.rules = "UnsafeBlock"
                                    THEN "Unsafe" ELSE unsafety,
                       unsafe_push_count |-> count[2],
                       from_fn |-> FALSE]]

\* Mutant of recurse: a block that is not an unsafe block is checked as
\* Normal, whatever encloses it.
recurse_resets_unsafety(self, blk) ==
    IF self.unsafety = "Unsafe" /\ self.from_fn
    THEN [panicked |-> FALSE, self |-> self, ret |-> self]
    ELSE LET count ==
                CASE blk.rules = "PushUnsafeBlock" ->
                        checked_add(self.unsafe_push_count, 1)
                  [] blk.rules = "PopUnsafeBlock" ->
                        checked_sub(self.unsafe_push_count, 1)
                  [] OTHER -> <<"Some", self.unsafe_push_count>>
         IN  IF count = None
             THEN [panicked |-> TRUE, self |-> self, ret |-> self]
             ELSE [panicked |-> FALSE,
                   self |-> self,
                   ret |-> [def |-> IF blk.rules = "DefaultBlock"
                                    THEN self.def ELSE blk.hir_id,
                            unsafety |-> IF blk.rules = "UnsafeBlock"
                                         THEN "Unsafe" ELSE "Normal",
                            unsafe_push_count |-> count[2],
                            from_fn |-> FALSE]]

\* UnsafetyState::recurse(&mut self, blk): `self` is what the receiver holds
\* when the call is over, `ret` the value returned; `panicked` when an
\* unwrap() met None, in which case nothing is returned.
recurse(self, blk) ==
    IF self.unsafety = "Unsafe" /\ self.from_fn
    THEN [panicked |-> FALSE, self |-> self, ret |-> self]
    ELSE LET unsafety == self.unsafety
             count ==
                CASE blk.rules = "PushUnsafeBlock" ->
                        checked_add(self.unsafe_push_count, 1)
                  [] blk.rules = "PopUnsafeBlock" ->
                        checked_sub(self.unsafe_push_count, 1)
                  [] OTHER -> <<"Some", self.unsafe_push_count>>
         IN  IF count = None
             THEN [panicked |-> TRUE, self |-> self, ret |-> self]
             ELSE [panicked |-> FALSE,
                   self |-> self,
                   ret |-> [def |-> IF blk.rules = "DefaultBlock"
                                    THEN self.def ELSE blk.hir_id,
                            unsafety |-> IF blk.rules = "UnsafeBlock"
                                         THEN "Unsafe" ELSE unsafety,
                            unsafe_push_count |-> count[2],
                            from_fn |-> FALSE]]

\* The state of a function body: UnsafetyState::function, with the
\* function's own unsafety and id 0.
UnsafetyInit ==
    /\ ps \in {<<function(u, 0)>> : u \in {"Normal", "Unsafe"}}
    /\ blocks = <<>>
    /\ upc = "walk"
    /\ FixupIdle
    /\ PipelineIdle
    /\ CoercionIdle
    /\ BreakableIdle
    /\ ConstIdle
    /\ QueryIdle
    /\ ParIdle

\* A block nested in the innermost one is entered: recurse is called on the
\* innermost state; the block's hir_id is its depth.
Recurse ==
    \E rules \in BlockCheckMode :
        LET n == Len(ps)
            r == recurse(ps[n], [rules |-> rules, hir_id |-> n])
        IN
        /\ upc = "walk"
        /\ n <= MaxBlocks
        /\ IF r.panicked
           THEN /\ upc' = "panic"
                /\ ps' = [ps EXCEPT ![n] = r.self]
           ELSE /\ upc' = "walk"
                /\ ps' = Append([ps EXCEPT ![n] = r.self], r.ret)
        /\ blocks' = Append(blocks, rules)
        /\ UNCHANGED <<fixup_vars, pipeline_vars, coercion_vars, breakable_vars, const_vars, query_vars, par_vars>>

UnsafetyNext == Recurse

UnsafetySpec == UnsafetyInit /\ [][UnsafetyNext]_vars

\* C19: a call of recurse leaves the state it is called on as it was, in
\* all four fields; the state of the block is a new value next to the
\* enclosing ones, which all stay what they were.
C19_RecurseKeepsSelf ==
    [][IsPrefix(ps, ps') /\ Len(ps') <= Len(ps) + 1]_vars

\* An unsafe block in a normal function: the function's state is still the
\* one UnsafetyState::function made, the block's state is another value.
C19_Witness ==
    /\ upc = "walk"
    /\ blocks = <<"PushUnsafeBlock", "UnsafeBlock">>
    /\ ps[1] = function("Normal", 0)
    /\ ps[2] = [def |-> 1, unsafety |-> "Normal", unsafe_push_count |-> 1,
                from_fn |-> FALSE]
    /\ ps[3] = [def |-> 2, unsafety |-> "Unsafe", unsafe_push_count |-> 1,
                from_fn |-> FALSE]

Count(seq, x) == Cardinality({i \in 1..Len(seq) : seq[i] = x})

\* Pushes minus pops among the first k blocks of the chain.
PushBalance(k) ==
    Count(SubSeq(blocks, 1, k), "PushUnsafeBlock")
        - Count(SubSeq(blocks, 1, k), "PopUnsafeBlock")

\* C20 as claimed: after every recurse that returned, the unsafe_push_count
\* of the innermost state is the number of PushUnsafeBlock blocks minus the
\* number of PopUnsafeBlock blocks on the chain, whatever the function.
C20_CountIsPushBalance ==
    upc = "walk" => ps[Len(ps)].unsafe_push_count = PushBalance(Len(blocks))

\* C20, amended: in a function that is not declared unsafe, the
\* unsafe_push_count of every state on the chain is the number of
\* PushUnsafeBlock blocks minus the number of PopUnsafeBlock blocks entered
\* up to it, UnsafeBlock and DefaultBlock blocks changing nothing; in a
\* function declared unsafe every block gets the function's own state, so
\* the count stays 0.
C20_CountIsPushBalanceInNormalFn ==
    upc = "walk" =>
        \A k \in 1..Len(ps) :
            IF ps[1].unsafety = "Normal"
            THEN ps[k].unsafe_push_count = PushBalance(k - 1)
            ELSE ps[k] = ps[1] /\ ps[k].unsafe_push_count = 0

\* Push, unsafe block, default block, pop in a normal function: the count
\* went 1, 1, 1, 0.
C20_Witness ==
    /\ upc = "walk"
    /\ ps[1].unsafety = "Normal"
    /\ blocks = <<"PushUnsafeBlock", "UnsafeBlock", "DefaultBlock",
                  "PopUnsafeBlock">>
    /\ ps[5].unsafe_push_count = 0
    /\ ps[4].unsafe_push_count = 1

\* C27: in a function declared unsafe every call of recurse returns, for
\* every kind of block and at every depth, and every nested block has the
\* state of the function itself: unsafety Unsafe, the function's def, push
\* count 0 and from_fn set.
C27_UnsafeFnStateIsKept ==
    (upc # "idle" /\ ps[1].unsafety = "Unsafe") =>
        /\ upc = "walk"
        /\ Len(ps) = Len(blocks) + 1
        /\ \A k \in 1..Len(ps) :
              /\ ps[k].unsafety = "Unsafe"
              /\ ps[k].def = 0
              /\ ps[k].unsafe_push_count = 0
              /\ ps[k].from_fn

\* An unsafe function with a pop-unsafe block in a push-unsafe block in an
\* unsafe block in a pop-unsafe block.
C27_Witness ==
    /\ upc = "walk"
    /\ blocks = <<"PopUnsafeBlock", "UnsafeBlock", "PushUnsafeBlock",
                  "PopUnsafeBlock">>
    /\ ps[5] = function("Unsafe", 0)

\* ---- C30 ------------------------------------------------------------------

FlagsAsDefaulted ==
    /\ Len(select_flags) >= 1 => select_flags[1] = FALSE
    /\ Len(select_flags) >= 2 =>
          select_flags[2] = (\E v \in Vars : DefaultedByNoOpaque(v))
    /\ Len(select_flags) >= 3 =>
          select_flags[3] = (\E v \in Vars : defaulted[v] # None)
    /\ Len(select_flags) <= 3

FlagStaysTrue == fallback_has_occurred => fallback_has_occurred'

\* C30: the flag passed to the first selection is false; the one passed to
\* the second is true exactly when the NoOpaque pass defaulted a variable;
\* the one passed to the third is true exactly when either pass did; and
\* fallback_has_occurred, once true, stays true.
C30_FlagTellsFallback ==
    []FlagsAsDefaulted /\ [][FlagStaysTrue]_vars

\* A body with a general and an opaque variable unresolved: the first was
\* defaulted by the NoOpaque pass, the second by the All pass.
C30_Witness ==
    /\ select_flags = <<FALSE, TRUE, TRUE>>
    /\ var_kind = <<"general", "opaque">>
    /\ defaulted[1] = <<"FallbackNoOpaque", "Unit">>
    /\ defaulted[2] = <<"FallbackAll", "Opaque">>

\* ---- C26 ------------------------------------------------------------------

\* The region check step: the in-progress table and the resolution of every
\* type variable are as before, and what is added to the reported errors
\* are region errors only.
RegionckKeepsTypes ==
    pc = "regionck" =>
        /\ node_types' = node_types
        /\ typeck_results' = typeck_results
        /\ \A v \in Vars : var_kind[v] \in TypeKinds => store'[v] = store[v]
        /\ IsPrefix(errors, errors')
        /\ \A i \in (Len(errors) + 1)..Len(errors') : errors'[i][1] = "region"

MaxLocals == 2
MaxRefs == 2

\* The item's annotation, body_ty: absent (an anonymous constant), the
\* placeholder `_`, or an explicit type.
Annotations ==
    {None, <<"Infer">>} \cup {<<"Explicit", t>> : t \in {<<"Int">>, <<"Opaque">>}}

\* What `fallback` can return: tcx.type_of(def_id) or type_of(param_did),
\* or tcx.ty_error() under diagnostic_only_typeck.
FallbackTys == {<<"Int">>, <<"Assoc">>, <<"Opaque">>, <<"Error">>}

ValueTys == {<<"Int">>, <<"Bool">>, <<"Never">>}

\* AstConv::ast_ty_to_ty(&fcx, ty): `_` becomes a fresh type variable, an
\* explicit type the type it names.
ast_ty_to_ty(ty) == IF ty = <<"Infer">> THEN <<"Infer">> ELSE ty[2]

\* fcx.normalize_associated_types_in
normalize_associated_types_in(ty) ==
    IF ty = <<"Assoc">> THEN <<"Int">> ELSE ty

\* fcx.instantiate_opaque_types_from_value: an opaque type becomes a fresh
\* type variable.
instantiate_opaque_types_from_value(ty) ==
    IF ty = <<"Opaque">> THEN <<"Infer">> ELSE ty

\* Whether a value of type `from` coerces to `to`.
can_coerce(from, to) ==
    \/ from = to
    \/ from = <<"Never">>
    \/ to \in {<<"Infer">>, <<"Error">>}

RefSeqs(n) ==
    UNION {[1..k -> 1..n] : k \in 0..MaxRefs}

ConstInit ==
    /\ cpc = "expected_type"
    /\ body_ty \in Annotations
    /\ fallback_ty \in FallbackTys
    /\ impl_trait_in_bindings \in BOOLEAN
    /\ bindings \in 0..MaxLocals
    /\ body_refs \in RefSeqs(bindings)
    /\ value_ty \in ValueTys
    /\ expected_type = None
    /\ revealed_ty = None
    /\ sized_tys = <<>>
    /\ locals = <<>>
    /\ checked = 0
    /\ lookups = <<>>
    /\ cerrors = <<>>
    /\ item_ty = None
    /\ FixupIdle
    /\ PipelineIdle
    /\ CoercionIdle
    /\ BreakableIdle
    /\ QueryIdle
    /\ ParIdle
    /\ UnsafetyIdle

\* Mutant of ExpectedType: every annotation, not just `_`, is converted.
ExpectedTypeOfAnyAnnotation ==
    /\ cpc = "expected_type"
    /\ expected_type' =
          normalize_associated_types_in(
              IF body_ty # None THEN ast_ty_to_ty(body_ty) ELSE fallback_ty)
    /\ sized_tys' = Append(sized_tys, expected_type')
    /\ cpc' = "revealed_ty"
    /\ UNCHANGED <<body_ty, fallback_ty, impl_trait_in_bindings, bindings,
                   body_refs, value_ty, revealed_ty, locals, checked, lookups,
                   cerrors, item_ty, fixup_vars, pipeline_vars, coercion_vars, breakable_vars, query_vars,
                   par_vars, unsafety_vars>>

\* let expected_type = body_ty.and_then(|ty| match ty.kind {
\*     hir::TyKind::Infer => Some(ast_ty_to_ty(&fcx, ty)), _ => None })
\*     .unwrap_or_else(fallback);
\* let expected_type = fcx.normalize_associated_types_in(.., &expected_type);
\* fcx.require_type_is_sized(expected_type, ..);
ExpectedType ==
    /\ cpc = "expected_type"
    /\ expected_type' =
          normalize_associated_types_in(
              IF body_ty = <<"Infer">> THEN ast_ty_to_ty(body_ty) ELSE fallback_ty)
    /\ sized_tys' = Append(sized_tys, expected_type')
    /\ cpc' = "revealed_ty"
    /\ UNCHANGED <<body_ty, fallback_ty, impl_trait_in_bindings, bindings,
                   body_refs, value_ty, revealed_ty, locals, checked, lookups,
                   cerrors, item_ty, fixup_vars, pipeline_vars, coercion_vars, breakable_vars, query_vars,
                   par_vars, unsafety_vars>>

\* let revealed_ty = if tcx.features().impl_trait_in_bindings {
\*     fcx.instantiate_opaque_types_from_value(id, &expected_type, ..)
\* } else { expected_type };
RevealedTy ==
    /\ cpc = "revealed_ty"
    /\ revealed_ty' = IF impl_trait_in_bindings
                       THEN instantiate_opaque_types_from_value(expected_type)
                       ELSE expected_type
    /\ cpc' = "gather_locals"
    /\ UNCHANGED <<body_ty, fallback_ty, impl_trait_in_bindings, bindings,
                   body_refs, value_ty, expected_type, sized_tys, locals, checked,
                   lookups, cerrors, item_ty, fixup_vars, pipeline_vars, coercion_vars, breakable_vars,
                   query_vars, par_vars, unsafety_vars>>

\* Mutant of GatherLocals: the visitor returns without having walked the
\* body; bindings are left to be declared when met.
GatherLocalsSkipsBody ==
    /\ cpc = "gather_locals"
    /\ cpc' = "check_expr"
    /\ UNCHANGED <<body_ty, fallback_ty, impl_trait_in_bindings, bindings,
                   body_refs, value_ty, expected_type, revealed_ty, sized_tys,
                   locals, checked, lookups, cerrors, item_ty, fixup_vars,
                   pipeline_vars, coercion_vars, breakable_vars, query_vars, par_vars, unsafety_vars>>

\* GatherLocalsVisitor::new(&fcx, id).visit_body(body): one binding of the
\* body after the other is given an entry; the call returns when the walk
\* has been over the whole body.
GatherLocals ==
    /\ cpc = "gather_locals"
    /\ IF Len(locals) < bindings
       THEN /\ locals' = Append(locals, <<"Var", Len(locals) + 1>>)
            /\ cpc' = cpc
       ELSE /\ locals' = locals
            /\ cpc' = "check_expr"
    /\ UNCHANGED <<body_ty, fallback_ty, impl_trait_in_bindings, bindings,
                   body_refs, value_ty, expected_type, revealed_ty, sized_tys,
                   checked, lookups, cerrors, item_ty, fixup_vars,
                   pipeline_vars, coercion_vars, breakable_vars, query_vars, par_vars, unsafety_vars>>

\* fcx.check_expr_coercable_to_type(&body.value, revealed_ty, None): the
\* expressions of the body are checked, each reference to a binding looking
\* up its entry (an internal error when there is none); then the type of
\* the value is coerced to revealed_ty, a failure being reported.
CheckExpr ==
    /\ cpc = "check_expr"
    /\ IF checked < Len(body_refs)
       THEN LET b == body_refs[checked + 1] IN
            IF b <= Len(locals)
            THEN /\ lookups' = Append(lookups, <<b, locals[b]>>)
                 /\ checked' = checked + 1
                 /\ cpc' = cpc
                 /\ cerrors' = cerrors
            ELSE /\ lookups' = Append(lookups, <<b, None>>)
                 /\ checked' = checked
                 /\ cpc' = "bug"
                 /\ cerrors' = cerrors
       ELSE /\ lookups' = lookups
            /\ checked' = checked
            /\ cerrors' = IF can_coerce(value_ty, revealed_ty) THEN cerrors
                          ELSE Append(cerrors, <<"mismatch", value_ty, revealed_ty>>)
            /\ cpc' = "write_ty"
    /\ UNCHANGED <<body_ty, fallback_ty, impl_trait_in_bindings, bindings,
                   body_refs, value_ty, expected_type, revealed_ty, sized_tys,
                   locals, item_ty, fixup_vars, pipeline_vars, coercion_vars, breakable_vars, query_vars,
                   par_vars, unsafety_vars>>

\* Mutant of WriteTy: the type is recorded only when the coercion went
\* through.
WriteTyIfCoerced ==
    /\ cpc = "write_ty"
    /\ item_ty' = IF cerrors = <<>> THEN revealed_ty ELSE item_ty
    /\ cpc' = "done"
    /\ UNCHANGED <<body_ty, fallback_ty, impl_trait_in_bindings, bindings,
                   body_refs, value_ty, expected_type, revealed_ty, sized_tys,
                   locals, checked, lookups, cerrors, fixup_vars,
                   pipeline_vars, coercion_vars, breakable_vars, query_vars, par_vars, unsafety_vars>>

\* fcx.write_ty(id, revealed_ty);
WriteTy ==
    /\ cpc = "write_ty"
    /\ item_ty' = revealed_ty
    /\ cpc' = "done"
    /\ UNCHANGED <<body_ty, fallback_ty, impl_trait_in_bindings, bindings,
                   body_refs, value_ty, expected_type, revealed_ty, sized_tys,
                   locals, checked, lookups, cerrors, fixup_vars,
                   pipeline_vars, coercion_vars, breakable_vars, query_vars, par_vars, unsafety_vars>>

ConstNext ==
    \/ ExpectedType
    \/ RevealedTy
    \/ GatherLocals
    \/ CheckExpr
    \/ WriteTy

ConstSpec == ConstInit /\ [][ConstNext]_vars

\* The expected type the branch computes from an annotation and a signature
\* type, as C28 states it.
ExpectedOf(ann, sig_ty) ==
    normalize_associated_types_in(
        IF ann = <<"Infer">> THEN <<"Infer">> ELSE sig_ty)

\* C28: for a constant, static or anonymous constant the expected type of the
\* body is the type converted from the annotation only when the annotation
\* is the placeholder `_`; with an explicit annotation or none it is the
\* type the caller's fallback supplies (after normalization), and that type
\* is the one required to be sized.
C28_ExpectedTypeFromInferOrFallback ==
    expected_type # None =>
        /\ expected_type = ExpectedOf(body_ty, fallback_ty)
        /\ body_ty # <<"Infer">> =>
               expected_type = normalize_associated_types_in(fallback_ty)
        /\ sized_tys = <<expected_type>>

\* An explicit annotation of one type, a fallback of another: the expected
\* type is the fallback's.
C28_Witness ==
    /\ cpc = "done"
    /\ body_ty = <<"Explicit", <<"Opaque">>>>
    /\ fallback_ty = <<"Error">>
    /\ expected_type = <<"Error">>

\* The revealed type of the item, from its inputs.
RevealedOf ==
    IF impl_trait_in_bindings
    THEN instantiate_opaque_types_from_value(expected_type)
    ELSE expected_type

\* C22: when the branch is over the type recorded for the item is the
\* revealed expected type, never nothing, whether the coercion of the body's
\* value to it went through or not; a coercion that fails is reported as one
\* type mismatch and one that succeeds reports nothing.
C22_ItemTypeIsExpectedType ==
    /\ cpc \in {"write_ty", "done"} =>
          cerrors = IF can_coerce(value_ty, revealed_ty) THEN <<>>
                    ELSE <<(<<"mismatch", value_ty, revealed_ty>>)>>
    /\ cpc = "done" =>
          /\ item_ty # None
          /\ item_ty = revealed_ty
          /\ revealed_ty = RevealedOf
    /\ cpc # "bug"

\* A body of type Bool for an item of expected type Int: the mismatch is
\* reported and Int is recorded.
C22_Witness ==
    /\ cpc = "done"
    /\ value_ty = <<"Bool">>
    /\ cerrors # <<>>
    /\ item_ty = <<"Int">>

\* Every binding of the body has its entry.
LocalsComplete ==
    locals = [b \in 1..bindings |-> <<"Var", b>>]

\* Once the walk is over no step changes the table.
LocalsFrozen ==
    cpc \in {"check_expr", "write_ty", "done"} => locals' = locals

\* C21: from the first call of the expression checker on, the table of
\* locals has an entry for every binding of the body, every lookup finds the
\* entry of its binding, and no step creates or changes an entry.
C21_LocalsBeforeExpressions ==
    /\ [](cpc \in {"check_expr", "write_ty", "done", "bug"} =>
            /\ LocalsComplete
            /\ \A i \in 1..Len(lookups) :
                   lookups[i][2] = <<"Var", lookups[i][1]>>)
    /\ [](checked > 0 => LocalsComplete)
    /\ [][LocalsFrozen]_vars

\* A body that refers to its second binding before its first.
C21_Witness ==
    /\ cpc = "done"
    /\ bindings = 2
    /\ body_refs = <<2, 1>>
    /\ checked = 2

(***************************************************************************)
(* EnclosingBreakables: the stack of the loops and labeled blocks that     *)
(* enclose the expression being checked, and the map from the identity of  *)
(* each to its slot.  Slots are counted from 0 as in the code.             *)
(***************************************************************************)

\* Number of loops and labeled blocks of the body, and the deepest nesting.
NBreakables == 3
MaxNest == 3

BreakableIds == 1..NBreakables

\* struct BreakableCtxt { may_break, coerce }: coerce is None where a break
\* with a value is illegal, and otherwise holds the number of exits whose
\* type it has collected (0 or 1, further exits leave it at 1).
BreakableCtxts ==
    [may_break : {FALSE}, coerce : {None, <<"Some", 0>>}]

\* Mutant of opt_find_breakable: the innermost entry is returned for any id
\* the map holds.
opt_find_breakable_innermost(self, target_id) ==
    IF target_id \in DOMAIN self.by_id
    THEN <<"Some", Len(self.stack) - 1>>
    ELSE None

\* Mutant of find_breakable: a missing entry is handed on as None.
find_breakable_lenient(self, target_id) ==
    IF target_id \in DOMAIN self.by_id
    THEN IF self.by_id[target_id] < Len(self.stack)
         THEN <<"Some", self.by_id[target_id]>>
         ELSE <<"panic">>
    ELSE None

\* match self.by_id.get(&target_id) {
\*     Some(ix) => Some(&mut self.stack[*ix]), None => None }
\* The reference returned is the slot; indexing outside the stack panics.
opt_find_breakable(self, target_id) ==
    IF target_id \in DOMAIN self.by_id
    THEN IF self.by_id[target_id] < Len(self.stack)
         THEN <<"Some", self.by_id[target_id]>>
         ELSE <<"panic">>
    ELSE None

\* self.opt_find_breakable(target_id).unwrap_or_else(|| bug!(..))
find_breakable(self, target_id) ==
    LET r == opt_find_breakable(self, target_id) IN
    IF r = None THEN <<"bug">> ELSE r

\* What a caller does through the `&mut BreakableCtxt` it was handed: a
\* break to the entry marks it and, where a value is legal, its type is
\* collected.
Broken(ctxt) ==
    [may_break |-> TRUE,
     coerce |-> IF ctxt.coerce = None THEN None ELSE <<"Some", 1>>]

BreakableInit ==
    /\ bpc = "walk"
    /\ stack = <<>>
    /\ by_id = <<>>
    /\ stack_ids = <<>>
    /\ saved = <<>>
    /\ found = None
    /\ FixupIdle
    /\ PipelineIdle
    /\ CoercionIdle
    /\ QueryIdle
    /\ ParIdle
    /\ UnsafetyIdle
    /\ ConstIdle

\* Entering a loop or labeled block: its context is pushed and its id is
\* mapped to the slot.
Enter ==
    \E id \in BreakableIds \ DOMAIN by_id, ctxt \in BreakableCtxts :
        /\ bpc = "walk"
        /\ Len(stack) < MaxNest
        /\ by_id' = [k \in DOMAIN by_id \cup {id} |->
                        IF k = id THEN Len(stack) ELSE by_id[k]]
        /\ stack' = Append(stack, ctxt)
        /\ stack_ids' = Append(stack_ids, id)
        /\ saved' = Append(saved, [stack |-> stack, by_id |-> by_id])
        /\ UNCHANGED <<bpc, found, fixup_vars, pipeline_vars, coercion_vars, query_vars,
                       par_vars, unsafety_vars, const_vars>>

\* Leaving the innermost construct: its id is unmapped and its context
\* popped.
Leave ==
    /\ bpc = "walk"
    /\ stack # <<>>
    /\ LET id == stack_ids[Len(stack_ids)] IN
       by_id' = [k \in DOMAIN by_id \ {id} |-> by_id[k]]
    /\ stack' = SubSeq(stack, 1, Len(stack) - 1)
    /\ stack_ids' = SubSeq(stack_ids, 1, Len(stack_ids) - 1)
    /\ saved' = SubSeq(saved, 1, Len(saved) - 1)
    /\ UNCHANGED <<bpc, found, fixup_vars, pipeline_vars, coercion_vars, query_vars,
                   par_vars, unsafety_vars, const_vars>>

\* The state after a lookup that returned r, the caller breaking to the
\* entry when `breaks`.
AfterLookup(r, breaks) ==
    /\ found' = r
    /\ bpc' = IF r \in {<<"bug">>, <<"panic">>} THEN "bug" ELSE "walk"
    /\ stack' = IF breaks /\ r[1] = "Some"
                THEN [stack EXCEPT ![r[2] + 1] = Broken(@)]
                ELSE stack
    /\ UNCHANGED <<by_id, stack_ids, saved, fixup_vars, pipeline_vars, coercion_vars,
                   query_vars, par_vars, unsafety_vars, const_vars>>

\* A call of find_breakable by the check of a `break` or `continue`.
FindBreakable ==
    \E target_id \in BreakableIds, breaks \in BOOLEAN :
        /\ bpc = "walk"
        /\ AfterLookup(find_breakable([stack |-> stack, by_id |-> by_id],
                                      target_id), breaks)

\* A call of opt_find_breakable.
OptFindBreakable ==
    \E target_id \in BreakableIds, breaks \in BOOLEAN :
        /\ bpc = "walk"
        /\ AfterLookup(opt_find_breakable([stack |-> stack, by_id |-> by_id],
                                          target_id), breaks)

BreakableNext ==
    \/ Enter
    \/ Leave
    \/ FindBreakable
    \/ OptFindBreakable

BreakableSpec == BreakableInit /\ [][BreakableNext]_vars

\* Every id of the map names a slot inside the stack, the one its construct
\* was pushed to, and the map holds the open constructs and no other id.
ByIdNamesPushedEntry ==
    /\ Len(stack_ids) = Len(stack)
    /\ DOMAIN by_id = Range(stack_ids)
    /\ \A id \in DOMAIN by_id :
          /\ by_id[id] \in 0..(Len(stack) - 1)
          /\ stack_ids[by_id[id] + 1] = id

\* A lookup of an open construct returned the slot that was pushed for it.
LookupHitsPushedEntry ==
    \A target_id \in DOMAIN by_id, breaks \in BOOLEAN :
        (bpc = "walk" /\ AfterLookup(find_breakable(
             [stack |-> stack, by_id |-> by_id], target_id), breaks)) =>
            /\ found'[1] = "Some"
            /\ stack_ids[found'[2] + 1] = target_id

\* A step is the push of one entry, the pop of one entry, or leaves the
\* stack as long as it was.
OnePushOrPop ==
    \/ Len(stack') = Len(stack)
    \/ Len(stack') = Len(stack) + 1 /\ SubSeq(stack', 1, Len(stack)) = stack
    \/ Len(stack') = Len(stack) - 1 /\ SubSeq(stack, 1, Len(stack')) = stack'

\* The step leaves a construct.
Leaves == Len(stack') < Len(stack)

\* After the construct is left the map is the map from before it was
\* entered and the stack holds the same constructs in the same slots.
LeaveRestoresShape ==
    Leaves =>
        /\ by_id' = saved[Len(saved)].by_id
        /\ Len(stack') = Len(saved[Len(saved)].stack)
        /\ \A i \in 1..Len(stack') :
              stack'[i].coerce = None <=> saved[Len(saved)].stack[i].coerce = None

\* C25 as stated: after the construct is left the stack and the identity
\* map are as they were before it was entered, the contents of the entries
\* of the enclosing constructs included.
C25_LeaveRestoresStackAndMap ==
    [][Leaves => /\ by_id' = saved[Len(saved)].by_id
                 /\ stack' = saved[Len(saved)].stack]_vars

\* C25: one context is pushed on entering a construct and popped on leaving
\* it; while it is on the stack by_id maps its id to the slot pushed for it,
\* inside the stack, and a lookup returns that slot; after it is left the
\* map is as before it was entered and the stack has the entries of the
\* same constructs, whose contents may have been changed through the
\* references handed out by lookups in between.
C25_LeaveRestoresShape ==
    /\ []ByIdNamesPushedEntry
    /\ [][LookupHitsPushedEntry /\ OnePushOrPop /\ LeaveRestoresShape]_vars

\* An inner construct, whose lookup returned slot 1, has been left; the
\* outer one is still open at slot 0, its entry marked by a break.
C25_Witness ==
    /\ Len(stack) = 1
    /\ stack[1].may_break
    /\ found = <<"Some", 1>>
    /\ DOMAIN by_id = {2}
    /\ by_id[2] = 0

\* The lookups of an id the map does not hold.
MissingLookups ==
    \A target_id \in BreakableIds \ DOMAIN by_id, breaks \in BOOLEAN :
        LET self == [stack |-> stack, by_id |-> by_id] IN
        /\ find_breakable(self, target_id) = <<"bug">>
        /\ opt_find_breakable(self, target_id) = None
        /\ (bpc = "walk" /\ AfterLookup(find_breakable(self, target_id), breaks)) =>
               bpc' = "bug" /\ stack' = stack /\ by_id' = by_id
        /\ (bpc = "walk" /\ AfterLookup(opt_find_breakable(self, target_id), breaks)
               /\ found' = None) =>
               bpc' = "walk" /\ stack' = stack /\ by_id' = by_id

\* C29: for an id that by_id does not hold, find_breakable ends in bug! and
\* opt_find_breakable returns None, and in both cases the stack and the map
\* are left as they were.
C29_MissingTargetLookups ==
    /\ [](bpc = "bug" => found = <<"bug">>)
    /\ [][MissingLookups]_vars

\* find_breakable was called, inside a loop, for an id that is not open.
C29_Witness ==
    /\ bpc = "bug"
    /\ found = <<"bug">>
    /\ stack # <<>>

(***************************************************************************)
(* The Coercion Engine held in RetTypeCoercion.coercion and in             *)
(* BreakableCtxt.coerce: the best type so far over the candidates it is    *)
(* given one after the other.                                              *)
(***************************************************************************)

\* Longest sequence of candidates, and number of engine instances run on it.
MaxCandidates == 3
NRuns == 2

Runs == 1..NRuns

\* The types of the candidates: the never type, a reference of the static
\* and of a shorter lifetime, the raw pointer references decay to, a
\* concrete type and the trait object it widens to, and an integer.
CoTypes ==
    {<<"Never">>, <<"RefStatic">>, <<"RefA">>, <<"Ptr">>, <<"Concrete">>,
     <<"Dyn">>, <<"Int">>}

\* a is a subtype of b.
Subtype(a, b) ==
    \/ a = b
    \/ a = <<"RefStatic">> /\ b = <<"RefA">>

\* One of the deeper rules coerces a to b.
Coerces(a, b) ==
    \/ a = <<"Never">>
    \/ a \in {<<"RefStatic">>, <<"RefA">>} /\ b = <<"Ptr">>
    \/ a = <<"Concrete">> /\ b = <<"Dyn">>

\* Mutant of join: a best type is never widened to a supertype.
join_never_widens(best, cand) ==
    CASE best = None -> cand
      [] Subtype(cand, best) \/ Subtype(best, cand) -> best
      [] Coerces(cand, best) -> best
      [] Coerces(best, cand) -> cand
      [] OTHER -> <<"Fail">>

\* The best type after one more candidate, or <<"Fail">>.
join(best, cand) ==
    CASE best = None -> cand
      [] Subtype(cand, best) -> best
      [] Subtype(best, cand) -> cand
      [] Coerces(cand, best) -> best
      [] Coerces(best, cand) -> cand
      [] OTHER -> <<"Fail">>

\* The best type of the instance that has taken most candidates.
SharedBest ==
    runs[CHOOSE r \in Runs : \A q \in Runs : runs[q].pos <= runs[r].pos].best

\* Mutant of coerce_candidate: the best type is kept in one place for all
\* instances.
coerce_candidate_shared(st, cand) ==
    IF st.failed_at # 0
    THEN [st EXCEPT !.pos = @ + 1, !.hist = Append(@, <<"Fail">>)]
    ELSE LET b == join(SharedBest, cand) IN
         IF b = <<"Fail">>
         THEN [st EXCEPT !.pos = @ + 1, !.failed_at = st.pos + 1,
                         !.hist = Append(@, b)]
         ELSE [st EXCEPT !.pos = @ + 1, !.best = b, !.hist = Append(@, b)]

\* One candidate given to an instance: a failed join stays failed.  hist is
\* the history of the results, one for each candidate taken.
coerce_candidate(st, cand) ==
    IF st.failed_at # 0
    THEN [st EXCEPT !.pos = @ + 1, !.hist = Append(@, <<"Fail">>)]
    ELSE LET b == join(st.best, cand) IN
         IF b = <<"Fail">>
         THEN [st EXCEPT !.pos = @ + 1, !.failed_at = st.pos + 1,
                         !.hist = Append(@, b)]
         ELSE [st EXCEPT !.pos = @ + 1, !.best = b, !.hist = Append(@, b)]

\* A new instance: no candidate taken, no best type.
NewCoercion == [best |-> None, pos |-> 0, failed_at |-> 0, hist |-> <<>>]

CandidateSeqs == UNION {[1..k -> CoTypes] : k \in 1..MaxCandidates}

CoercionInit ==
    /\ jpc = "join"
    /\ candidates \in CandidateSeqs
    /\ runs = [r \in Runs |-> NewCoercion]
    /\ FixupIdle
    /\ PipelineIdle
    /\ QueryIdle
    /\ ParIdle
    /\ UnsafetyIdle
    /\ ConstIdle
    /\ BreakableIdle

\* Instance r is given its next candidate.
Coerce ==
    \E r \in Runs :
        /\ jpc = "join"
        /\ runs[r].pos < Len(candidates)
        /\ runs' = [runs EXCEPT
                       ![r] = coerce_candidate(@, candidates[runs[r].pos + 1])]
        /\ UNCHANGED <<jpc, candidates, fixup_vars, pipeline_vars, query_vars,
                       par_vars, unsafety_vars, const_vars, breakable_vars>>

CoercionNext == Coerce

CoercionSpec == CoercionInit /\ [][CoercionNext]_vars

\* What the step of instance r did with its candidate, given the best type
\* b it had and the candidate c.
StepAsStated(r) ==
    LET b == runs[r].best
        c == candidates[runs[r].pos + 1]
        failed == runs'[r].failed_at = runs[r].pos + 1
    IN
    (runs[r].failed_at = 0 /\ runs'[r].pos = runs[r].pos + 1 /\ b # None) =>
        /\ Subtype(c, b) => runs'[r].best = b /\ ~failed
        /\ Subtype(b, c) => runs'[r].best = c /\ ~failed
        /\ (~Subtype(c, b) /\ ~Subtype(b, c)) =>
               (failed <=> (~Coerces(c, b) /\ ~Coerces(b, c)))
        /\ failed => runs'[r].best = b

\* Once a join has failed it stays failed, with the best type it had.
FailureIsFinal(r) ==
    runs[r].failed_at # 0 =>
        runs'[r].failed_at = runs[r].failed_at /\ runs'[r].best = runs[r].best

\* C23: a candidate that is a subtype of the best type leaves the best type
\* as it is; a candidate the best type is a subtype of becomes the best
\* type; when neither holds the join fails exactly when none of the deeper
\* rules (decay of a reference to a pointer, widening to a trait object,
\* absorption of the never type) applies, and a failed join stays failed.
C23_JoinStep ==
    [][\A r \in Runs : StepAsStated(r) /\ FailureIsFinal(r)]_vars

\* A join that was widened from the static reference to the shorter one and
\* then failed on an integer.
C23_Witness ==
    /\ candidates = <<(<<"RefStatic">>), (<<"RefA">>), (<<"Int">>)>>
    /\ runs[1].best = <<"RefA">>
    /\ runs[1].failed_at = 3

C31_UnsafeStaysUnsafe ==
    \A i \in 1..Len(ps), j \in 1..Len(ps) :
        (i < j /\ ps[i].unsafety = "Unsafe") => ps[j].unsafety = "Unsafe"

\* In a function that is not unsafe, an unsafe block holds a default block,
\* a push block and a pop block, one in the other in some order, and the
\* innermost state is Unsafe.
C31_Witness ==
    /\ Len(ps) = 5
    /\ ps[1].unsafety = "Normal"
    /\ blocks[1] = "UnsafeBlock"
    /\ {blocks[2], blocks[3], blocks[4]} =
           {"DefaultBlock", "PushUnsafeBlock", "PopUnsafeBlock"}
    /\ ps[5].unsafety = "Unsafe"

\* A type with the argument list of each of its outermost opaque types cut
\* off: what lies outside the argument lists of opaque types.
RECURSIVE OutsideOpaque(_)
OutsideOpaque(t) ==
    CASE t[1] = "Ref" -> <<"Ref", t[2], OutsideOpaque(t[3])>>
      [] t[1] = "Opaque" -> <<"Opaque", t[2]>>
      [] OTHER -> t

\* The places of a type that lie in no opaque type's argument list.
OutsidePaths(t) ==
    {p \in Paths(t) :
        \A n \in 0..(Len(p) - 1) : Sub(t, SubSeq(p, 1, n))[1] # "Opaque"}

\* C32: a signature that fixup_opaque_types returns is the input outside
\* the argument lists of opaque types; every opaque type of the input that
\* contains no inference variable is in the result, unchanged, at its
\* place; and every inference variable of the input that lies in no opaque
\* type's arguments is in the result at its place.
C32_FixupFrame ==
    fpc = "fixed" =>
        \A k \in 1..Len(sig) :
            /\ OutsideOpaque(fixed[k]) = OutsideOpaque(sig[k])
            /\ \A p \in OpaqueOccurrences(sig[k]) :
                  ~needs_infer(Sub(sig[k], p)) =>
                      Sub(fixed[k], p) = Sub(sig[k], p)
            /\ \A p \in OutsidePaths(sig[k]) :
                  Sub(sig[k], p) = <<"Infer">> =>
                      Sub(fixed[k], p) = <<"Infer">>

\* A signature whose input is an inference variable and whose output has,
\* under a reference with a region variable, an opaque type of two
\* arguments: one an inference variable, replaced, the other an opaque type
\* without inference variables, kept; the variables outside are kept.
C32_Witness ==
    /\ fpc = "fixed"
    /\ sig[1] = <<"Infer">>
    /\ fixed[1] = <<"Infer">>
    /\ sig[2] = <<"Ref", <<"ReVar">>,
                   <<"Opaque", 2, <<<<"Lifetime", <<"ReVar">>>>,
                                   <<"Type", <<"Opaque", 1,
                                       <<<<"Type", <<"Int">>>>>>>>>>>>>>>>
    /\ fixed[2] = <<"Ref", <<"ReVar">>,
                   <<"Opaque", 2, <<<<"Lifetime", <<"ReEarlyBound", 0>>>>,
                                   <<"Type", <<"Opaque", 1,
                                       <<<<"Type", <<"Int">>>>>>>>>>>>>>>>

====
